---- MODULE Spec2Model ----
(***************************************************************************)
(* A model of the INS1000 rover driver (driver_ins1000.py), its            *)
(* user-configuration message (message.py) and the CSV logging             *)
(* application (file_storage.py).                                          *)
(*                                                                         *)
(* The module holds several specifications over one set of variables; each *)
(* drives one part of the program and leaves the other parts idle:         *)
(*   SpecParser   the parser thread alone, the byte queue already filled   *)
(*   SpecCollect  one call of start_collection: the controlling thread,    *)
(*                the receiver and the parser threads                      *)
(*   SpecCmds     the pending web commands and their expirer               *)
(*   SpecUserCfg  the setters of one user-configuration object             *)
(*   SpecLog      the CSV logging application                              *)
(***************************************************************************)
EXTENDS Integers, Sequences, FiniteSets, TLC

VARIABLES
    \* ---- the device and the transport (communicator) ----
    segs,           \* the two segments the device's byte stream is made of
    nrecv,          \* how many bytes of the stream cmt.read has returned
    cmt_open,       \* the transport is open
    written,        \* the commands written to the device, in order
    \* ---- RoverDriver fields ----
    exit_thread,
    data_queue,
    connection_status,
    web_clients,
    \* ---- RoverDriver.parser (locals of the parser thread) ----
    nparsed,        \* how many bytes the parser has taken from the queue
    sync_pattern,   \* collections.deque(3*[0], 3)
    find_header,
    frame,
    payload_len,
    parser_pc,      \* "idle" | "run" (loop top) | "take" | "exited" | "dead" (uncaught exception)
    dispatched,     \* the calls of parse_frame: <<[at, frame]>>, at = nparsed at the call
    \* ---- the receiver thread and the controlling thread (start_collection) ----
    receiver_pc,    \* "idle" | "run" (loop top) | "read" | "exited"
    main_pc,
    result,         \* what start_collection returned: "none" | "retry" (True) | "stop" (False)
    ds_log,         \* the DeviceStatus pushes: <<[returnStatus, to]>>, to = the clients pushed to
    read_fault,     \* cmt.read has raised
    interrupted,    \* a KeyboardInterrupt was taken in the wait loop
    \* ---- the pending web commands ----
    web_cmds,       \* <<[kind, time]>>: {kind : datetime.now()} in insertion order
    now,            \* the clock, in ticks of the expirer's sleep (0.5 s)
    expirer_ran,    \* auto_del_timeout_web_cmds has made its pass of this tick
    cmd_op,         \* the last operation on web_cmds: [op, kind, res, n removed]
    \* ---- one Msg_060C_topic_0A object (the user configuration) ----
    antenna_num,
    flags_leverarm_from_imu_center,
    internal_lever_arm,             \* <<>> until known, then 3 raw integers
    GNSS_lever_arm_center,          \* list of lists of raw integers
    GNSS_lever_arm_housing_mark,
    imu_rotation_matrix,
    n_updates,      \* calls of update_GNSS_lever_arm_by_internal_lever_arm so far
    msg_op,         \* the last call on the object: [op, fault, shaped]
    msg_faulted,    \* some call on the object has raised
    \* ---- RoverLogApp ----
    first_row,      \* packet name -> rows logged so far (0: header not yet written)
    log_files,      \* packet name -> what was written to its file, as tokens
    n_calls,        \* packet name -> calls of on_message so far
    log_fault,      \* the exception the last call of on_message raised, or "none"
    app_data,       \* RoverLogApp.data: the data of the last call of on_message
    \* ---- RoverDriver: the message cache, the application, what was handed on ----
    msgs,           \* self.msgs: cached name -> the newest value
    app,            \* self.app: "none" (None) or "app"
    emitted,        \* what the last handler call handed to the application and the web clients
    hd_op,          \* the last handler call: [op, name, fault, n], n = handler calls so far
    n_reinit,       \* calls of reinit so far
    n_on_reinit,    \* calls of app.on_reinit so far
    \* ---- RoverDriver: the lock of web_clients ----
    web_clients_lock    \* "free", or the thread that acquired it: "web" | "parser"

devvars == <<segs, nrecv, cmt_open, written>>
drvvars == <<exit_thread, data_queue, connection_status, web_clients>>
pvars == <<nparsed, sync_pattern, find_header, frame, payload_len, parser_pc, dispatched>>
cvars == <<receiver_pc, main_pc, result, ds_log, read_fault, interrupted>>

collectvars == <<devvars, drvvars, pvars, cvars>>
wvars == <<web_cmds, now, expirer_ran, cmd_op>>

uvars == <<antenna_num, flags_leverarm_from_imu_center, internal_lever_arm,
           GNSS_lever_arm_center, GNSS_lever_arm_housing_mark, imu_rotation_matrix,
           n_updates, msg_op, msg_faulted>>

lvars == <<first_row, log_files, n_calls, log_fault, app_data>>

kvars == <<msgs, app, emitted, hd_op, n_reinit, n_on_reinit>>

lockvars == <<web_clients_lock>>

vars == <<collectvars, wvars, uvars, lvars, lockvars, kvars>>

\* what the steps of one part of the program leave alone
noncollect == <<wvars, uvars, lvars, lockvars, kvars>>
noncmds == <<collectvars, uvars, lvars, lockvars, kvars>>
nonusercfg == <<collectvars, wvars, lvars, lockvars, kvars>>
nonlog == <<collectvars, wvars, uvars, kvars, lockvars>>

(***************************************************************************)
(* Bytes and small helpers                                                 *)
(***************************************************************************)
Range(s) == {s[i] : i \in 1..Len(s)}

\* n copies of b
Fill(n, b) == [i \in 1..n |-> b]

\* python's s[a:b] on a 0-indexed list (clamped to the list)
Slice(s, a, b) ==
    LET lo == IF a < 0 THEN 0 ELSE a
        hi == IF b > Len(s) THEN Len(s) ELSE b
    IN  IF hi <= lo THEN <<>> ELSE SubSeq(s, lo + 1, hi)

(***************************************************************************)
(* utility.check_sum: the two-byte trailer of a payload.  The fixed command *)
(* frames of the driver (payload <<x>>, trailer <<x, x>>) fit the running  *)
(* two-sum checksum modelled here.                                         *)
(***************************************************************************)
RECURSIVE SumFrom(_, _, _)
\* sum of s[lo..hi], split in halves so that the depth stays logarithmic
SumFrom(s, lo, hi) ==
    IF lo > hi THEN 0
    ELSE IF lo = hi THEN s[lo]
    ELSE LET mid == (lo + hi) \div 2
         IN  SumFrom(s, lo, mid) + SumFrom(s, mid + 1, hi)

check_sum(data) ==
    LET n == Len(data)
        w == [i \in 1..n |-> (n - i + 1) * data[i]]
    IN  <<SumFrom(data, 1, n) % 256, SumFrom(w, 1, n) % 256>>

(***************************************************************************)
(* RoverDriver.parser constants                                            *)
(***************************************************************************)
HEADER_05 == <<175, 32, 5>>
HEADER_06 == <<175, 32, 6>>
HEADER_07 == <<175, 32, 7>>
PAYLOAD_LEN_IDX == 4
MAX_FRAME_LIMIT == 500

(***************************************************************************)
(* The packet catalogue (setting/rover.json as loaded into                  *)
(* rover_properties): output packets by their 4-byte header, each with its *)
(* ordered payload fields.                                                 *)
(***************************************************************************)
rover_properties ==
    [outputPackets |->
        << [header |-> <<175, 32, 5, 1>>, name |-> "GH",
            payload |-> << [name |-> "Geoid height", type |-> "int16"] >>],
           [header |-> <<175, 32, 5, 2>>, name |-> "KFN",
            payload |-> << [name |-> "System time", type |-> "double"],
                           [name |-> "Position mode", type |-> "uint8"] >>],
           [header |-> <<175, 32, 5, 3>>, name |-> "EngineVersion",
            payload |-> << [name |-> "Engine version", type |-> "string"] >>],
           [header |-> <<175, 32, 5, 4>>, name |-> "SSS",
            var_num |-> [type |-> "uint8", idx |-> 2, field_idx |-> 3],
            payload |-> << [name |-> "Receiver_ID", type |-> "uint8"],
                           [name |-> "Antenna_ID", type |-> "uint8"],
                           [name |-> "N_SV", type |-> "uint8"],
                           [name |-> "SVID", type |-> "uint8"],
                           [name |-> "L1CN0", type |-> "float"] >>] >>,
     inputPackets |-> << >>]

\* next((x for x in ...['outputPackets'] if x['header'] == header), None)
output_packet_of(header) ==
    LET ps == rover_properties.outputPackets
        hit == {i \in 1..Len(ps) : ps[i].header = header}
    IN  IF hit = {} THEN <<>>
        ELSE << ps[CHOOSE i \in hit : \A j \in hit : i <= j] >>

\* the byte width unpack_output_packet adds up for one field type
TypeLen(t) ==
    CASE t \in {"float", "uint32", "int32"} -> 4
      [] t \in {"int16", "uint16"} -> 2
      [] t \in {"double", "int64", "uint64"} -> 8
      [] t \in {"char", "uchar", "uint8"} -> 1
      [] OTHER -> 0

RECURSIVE PackLength(_, _)
PackLength(fields, i) ==
    IF i > Len(fields) THEN 0 ELSE TypeLen(fields[i].type) + PackLength(fields, i + 1)

(***************************************************************************)
(* The pending web commands as get_web_cmds reads them: a list of          *)
(* [kind, time] in the order handle_cmd_msg appended them.                 *)
(***************************************************************************)
\* del lst[i], i counted from 0
DelAt(lst, i) == SubSeq(lst, 1, i) \o SubSeq(lst, i + 2, Len(lst))

\* get_web_cmds, lines 906-923: the scan from entry idx (counted from 0) on;
\* tp is the result (_cmd_tp, "none" for None), cmds the list left
RECURSIVE GetScan(_, _, _)
GetScan(cmds, idx, cmd_type) ==
    IF idx >= Len(cmds) THEN [tp |-> "none", cmds |-> cmds]
    ELSE LET key == cmds[idx + 1].kind
         IN  IF cmd_type = "setUserConfiguration"
             THEN IF key = "setIMURotationMatrix"
                  THEN [tp |-> "IMURotationMatrix", cmds |-> DelAt(cmds, idx)]
                  ELSE IF key = "setGNSSAntennaLeverArm"
                  THEN [tp |-> "GNSSAntennaLeverArm", cmds |-> DelAt(cmds, idx)]
                  ELSE GetScan(cmds, idx + 1, cmd_type)
             ELSE IF key = cmd_type
                  THEN [tp |-> cmd_type, cmds |-> DelAt(cmds, idx)]
                  ELSE GetScan(cmds, idx + 1, cmd_type)

\* (mutant) the scan goes on after a match and deletes every match
get_web_cmds_NoBreak(cmds, cmd_type) ==
    LET got == GetScan(cmds, 0, cmd_type)
        Other(c) == IF cmd_type = "setUserConfiguration"
                    THEN c.kind \notin {"setIMURotationMatrix", "setGNSSAntennaLeverArm"}
                    ELSE c.kind # cmd_type
    IN  [tp |-> got.tp, cmds |-> SelectSeq(cmds, Other)]

get_web_cmds(cmds, cmd_type) == GetScan(cmds, 0, cmd_type)

(***************************************************************************)
(* What the parser thread hands on.  A decoded packet is a sequence of     *)
(* fields [name, kind, v]; the cache maps a name to the newest value; a    *)
(* call of app.on_message and a loop over the web clients are recorded as  *)
(* they are made.  The callbacks of the application and of the web clients *)
(* return.                                                                 *)
(***************************************************************************)
\* {}
EmptyCache == [k \in {} |-> <<>>]

\* self.msgs[key] = value
Put(ms, key, value) == [k \in DOMAIN ms \cup {key} |-> IF k = key THEN value ELSE ms[k]]

\* name in packet, packet[name]
HasField(packet, name) == \E i \in 1..Len(packet) : packet[i].name = name
Field(packet, name) == packet[CHOOSE i \in 1..Len(packet) : packet[i].name = name].v

\* an ordered mapping of names to integers
Mapping(names, values) ==
    [i \in 1..Len(names) |-> [name |-> names[i], kind |-> "int", v |-> values[i]]]

\* self.app.on_message(packetType, packet, ...), made when an application is set
ToApp(ap, packetType, packet) ==
    IF ap = "none" THEN <<>>
    ELSE <<[to |-> "app", clients |-> {}, messageType |-> "on_message",
            packetType |-> packetType, packet |-> packet]>>

\* for client in self.web_clients: client.on_driver_message(data, ...)
ToWeb(clients, messageType, packetType, packet) ==
    <<[to |-> "web", clients |-> clients, messageType |-> messageType,
       packetType |-> packetType, packet |-> packet]>>

\* lines 55-56: the tables of the mode names, by code
nav_pos_vel_mode ==
    <<"INVALID", "DEAD_RECKON", "STAND_ALONE", "PRECISE_POINT_POSITIONING",
      "CODE_DIFF", "RTK_FLOAT", "RTK_FIXED", "USER_AIDING">>
nav_att_mode == <<"INVALID", "COARSE", "FINE">>

\* the fields packet_handler reads to build NAV (lines 689-724), as far as
\* they are modelled
NavFields_KFN == <<"System time", "Position mode", "Velocity mode", "Attitude status">>
NavFields_CNM == <<"Time of week", "Ellipsoidal height">>
NavFields_GH == <<"Geoid height">>

\* lines 689-724: a field is missing, or a mode code is not in its table
NavFault(ms) ==
    IF \/ \E i \in 1..Len(NavFields_KFN) : ~HasField(ms["KFN"], NavFields_KFN[i])
       \/ \E i \in 1..Len(NavFields_CNM) : ~HasField(ms["CNM"], NavFields_CNM[i])
       \/ \E i \in 1..Len(NavFields_GH) : ~HasField(ms["GH"], NavFields_GH[i])
    THEN "KeyError"
    ELSE IF \/ Field(ms["KFN"], "Position mode") \notin 0..(Len(nav_pos_vel_mode) - 1)
            \/ Field(ms["KFN"], "Velocity mode") \notin 0..(Len(nav_pos_vel_mode) - 1)
            \/ Field(ms["KFN"], "Attitude status") \notin 0..(Len(nav_att_mode) - 1)
    THEN "KeyError"
    ELSE "none"

\* lines 704-723: the NAV packet (the fields that need no floating point)
Nav(ms) ==
    <<[name |-> "System time", kind |-> "int", v |-> Field(ms["KFN"], "System time")],
      [name |-> "Time of week", kind |-> "int", v |-> Field(ms["CNM"], "Time of week")],
      [name |-> "Position mode", kind |-> "str",
       v |-> nav_pos_vel_mode[Field(ms["KFN"], "Position mode") + 1]],
      [name |-> "MSL height", kind |-> "int",
       v |-> Field(ms["CNM"], "Ellipsoidal height") - Field(ms["GH"], "Geoid height")],
      [name |-> "Velocity mode", kind |-> "str",
       v |-> nav_pos_vel_mode[Field(ms["KFN"], "Velocity mode") + 1]],
      [name |-> "Attitude status", kind |-> "str",
       v |-> nav_att_mode[Field(ms["KFN"], "Attitude status") + 1]]>>

\* (mutant) NAV is built as soon as KFN and CNM are cached
NavDue_NoGH(ms, packet_type) ==
    "KFN" \in DOMAIN ms /\ "CNM" \in DOMAIN ms /\ packet_type = "CNM"

\* line 687
NavDue(ms, packet_type) ==
    "KFN" \in DOMAIN ms /\ "CNM" \in DOMAIN ms /\ "GH" \in DOMAIN ms /\ packet_type = "CNM"

SS_Names == <<"IMU Status", "GNSS Status", "PPS Status", "NTRIP Status">>

\* (mutant) the fields the trigger does not set are kept from the cached SS
SubsystemStatus_Merged(ms, packet_type, packet) ==
    LET old == IF "SS" \in DOMAIN ms THEN ms["SS"] ELSE Mapping(SS_Names, <<0, 0, 0, 0>>)
    IN  IF packet_type = "SA"
        THEN Mapping(SS_Names,
                     <<IF Field(packet, "IMU message count") > 0 THEN 1 ELSE 0,
                       IF Field(packet, "GNSS message count") > 0 THEN 1 ELSE 0,
                       IF Field(packet, "PPS count") > 0 THEN 1 ELSE 0,
                       Field(old, "NTRIP Status")>>)
        ELSE Mapping(SS_Names,
                     <<Field(old, "IMU Status"), Field(old, "GNSS Status"),
                       Field(old, "PPS Status"),
                       IF Field(packet, "NTRIP message size") > 0 THEN 1 ELSE 0>>)

\* lines 741-746 (SA) and 756-761 (NCA): the SS packet
SubsystemStatus(ms, packet_type, packet) ==
    IF packet_type = "SA"
    THEN Mapping(SS_Names,
                 <<IF Field(packet, "IMU message count") > 0 THEN 1 ELSE 0,
                   IF Field(packet, "GNSS message count") > 0 THEN 1 ELSE 0,
                   IF Field(packet, "PPS count") > 0 THEN 1 ELSE 0,
                   0>>)
    ELSE Mapping(SS_Names,
                 <<0, 0, 0, IF Field(packet, "NTRIP message size") > 0 THEN 1 ELSE 0>>)

\* the fields the SS branch reads from the packet
SSFault(packet_type, packet) ==
    IF packet_type = "SA"
    THEN IF HasField(packet, "IMU message count") /\ HasField(packet, "GNSS message count")
            /\ HasField(packet, "PPS count") THEN "none" ELSE "KeyError"
    ELSE IF HasField(packet, "NTRIP message size") THEN "none" ELSE "KeyError"

\* (mutant) every packet is kept
CachedNames_All == {"KFN", "CNM", "GH", "SA", "NCA", "ProductID", "EngineVersion"}

\* lines 655-664: the packets packet_handler keeps under their own name
CachedNames == {"KFN", "CNM", "GH", "SA", "NCA"}

\* RoverDriver.packet_handler, lines 635-772: the cache, what is handed on and
\* the exception that leaves it ("none": it returns)
packet_handler(ms, clients, ap, packet_type, packet, is_var_len) ==
    LET cached == IF packet_type \in CachedNames
                  THEN Put(ms, packet_type, packet) ELSE ms
        msg_type == IF packet_type \in {"ProductID", "EngineVersion"}
                    THEN "queryResponse" ELSE "event"
        pid_fault == packet_type = "ProductID" /\ (is_var_len \/ ~HasField(packet, "Product ID"))
        sent == IF packet_type = "ProductID" /\ ~pid_fault
                THEN [i \in 1..Len(packet) |->
                         IF packet[i].name = "Product ID"
                         THEN [packet[i] EXCEPT !.kind = "str"] ELSE packet[i]]
                ELSE packet
        pushed == ToWeb(clients, msg_type, packet_type, sent)
    IN  IF pid_fault THEN [msgs |-> cached, out |-> <<>>, fault |-> "KeyError"]
        ELSE IF NavDue(cached, packet_type)
        THEN IF NavFault(cached) # "none"
             THEN [msgs |-> cached, out |-> pushed, fault |-> NavFault(cached)]
             ELSE [msgs |-> cached,
                   out |-> pushed \o ToApp(ap, "NAV", Nav(cached))
                              \o ToWeb(clients, "event", "NAV", Nav(cached)),
                   fault |-> "none"]
        ELSE IF packet_type \in {"SA", "NCA"}
        THEN IF SSFault(packet_type, packet) # "none"
             THEN [msgs |-> cached, out |-> pushed, fault |-> SSFault(packet_type, packet)]
             ELSE LET data == SubsystemStatus(cached, packet_type, packet)
                  IN  [msgs |-> Put(cached, "SS", data),
                       out |-> pushed \o ToApp(ap, "SS", data)
                                  \o ToWeb(clients, "event", "SS", data),
                       fault |-> "none"]
        ELSE [msgs |-> cached, out |-> pushed, fault |-> "none"]

\* (mutant) an empty decoded packet is handed on as well
dispatch_packet_AlsoEmpty(ms, clients, ap, name, data, is_var_len) ==
    LET h == packet_handler(ms, clients, ap, name, data, is_var_len)
    IN  [msgs |-> h.msgs, out |-> ToApp(ap, name, data) \o h.out, fault |-> h.fault]

\* parse_frame, lines 298-304: a decoded packet that is not empty goes to the
\* application and then to packet_handler
dispatch_packet(ms, clients, ap, name, data, is_var_len) ==
    IF data = <<>> THEN [msgs |-> ms, out |-> <<>>, fault |-> "none"]
    ELSE LET h == packet_handler(ms, clients, ap, name, data, is_var_len)
         IN  [msgs |-> h.msgs, out |-> ToApp(ap, name, data) \o h.out, fault |-> h.fault]

(***************************************************************************)
(* parse_frame, as far as the parser thread sees it: it returns, or an     *)
(* exception leaves it and ends the thread (nothing in parser catches it). *)
(***************************************************************************)
\* the payload parse_frame and the handlers cut out of a frame: frame[6:payload_len+6]
PayloadOf(fr) == Slice(fr, 6, 256 * fr[PAYLOAD_LEN_IDX + 2] + fr[PAYLOAD_LEN_IDX + 1] + 6)


\* what struct.unpack (unpack_output_packet) or b.decode() (handle_string_filed)
\* yields for a field of the type
ValueKind(type) ==
    CASE type \in {"float", "double"} -> "float"
      [] type = "string" -> "str"
      [] type = "char" -> "bytes"
      [] OTHER -> "int"

\* parse_frame, lines 283-289: a catalogue entry with a 'var_num' key is a
\* variable-length frame
is_var_len_frame(output_packet) == "var_num" \in DOMAIN output_packet

\* s * n
RECURSIVE Repeat(_, _)
Repeat(s, n) == IF n <= 0 THEN <<>> ELSE s \o Repeat(s, n - 1)

\* unpack_output_packet_var_len, lines 598-609: the decoded values are
\* gathered into one mapping of the first const_fileld_num names and then one
\* mapping for every var_fileld_num names after them (info[value] = ... of a
\* name the mapping has replaces its value); a mapping left unfinished at the
\* end is not returned
RECURSIVE GroupFields(_, _, _, _, _, _)
GroupFields(field_names, payload_data, idx, info, const_fileld_num, var_fileld_num) ==
    IF idx > Len(field_names) THEN <<>>
    ELSE LET item  == [name |-> field_names[idx],
                       kind |-> payload_data[idx].kind,
                       v |-> payload_data[idx].v]
             added == IF \E k \in 1..Len(info) : info[k].name = item.name
                      THEN [k \in 1..Len(info) |->
                               IF info[k].name = item.name THEN item ELSE info[k]]
                      ELSE Append(info, item)
             full == IF idx <= const_fileld_num THEN idx = const_fileld_num
                     ELSE Len(added) = var_fileld_num
         IN  IF full
             THEN <<added>> \o GroupFields(field_names, payload_data, idx + 1, <<>>,
                                           const_fileld_num, var_fileld_num)
             ELSE GroupFields(field_names, payload_data, idx + 1, added,
                              const_fileld_num, var_fileld_num)

\* unpack_output_packet_var_len, lines 527-614, from the values struct.unpack
\* yields for the payload (payload_data) and the repetition count var_num[0]
unpack_output_packet_var_len(output_message, payload_data, var_num) ==
    IF var_num = 0 THEN <<>>
    ELSE LET payload == output_message.payload
             pack_fmt_len == 1 + Len(payload)               \* '<' and one code per field
             var_fileld_num == pack_fmt_len - (1 + output_message.var_num.field_idx)
             const_fileld_num == pack_fmt_len - var_fileld_num - 1
             names == [i \in 1..Len(payload) |-> payload[i].name]
             var_fileld_names == SubSeq(names, var_fileld_num + 2, Len(names))
             field_names == names \o Repeat(var_fileld_names, var_num - 1)
         IN  GroupFields(field_names, payload_data, 1, <<>>,
                         const_fileld_num, var_fileld_num)

\* the entry has a field of type string: unpack_output_packet hands the whole
\* payload to handle_string_filed (line 458)
HasString(output_packet) ==
    \E i \in 1..Len(output_packet.payload) : output_packet.payload[i].type = "string"

\* unpack_output_packet: struct.pack('<length>B', *payload) takes exactly length bytes
unpack_output_packet_raises(output_packet, payload) ==
    ~HasString(output_packet) /\ Len(payload) # PackLength(output_packet.payload, 1)

\* struct.unpack of the bytes of one field: the integer of a field of one or
\* two bytes, the bytes themselves (the bits of the value) of a wider one
FieldValue(type, bytes) ==
    IF Len(bytes) = 1 THEN bytes[1]
    ELSE IF Len(bytes) = 2
    THEN LET u == bytes[1] + 256 * bytes[2]
         IN  IF type = "int16" /\ u >= 32768 THEN u - 65536 ELSE u
    ELSE bytes

\* struct.unpack(pack_fmt, b): the values of the fields of the given types,
\* taken from the bytes in order
RECURSIVE UnpackFields(_, _, _)
UnpackFields(types, bytes, i) ==
    IF i > Len(types) THEN <<>>
    ELSE <<[kind |-> ValueKind(types[i]),
            v |-> FieldValue(types[i], SubSeq(bytes, 1, TypeLen(types[i])))]>>
            \o UnpackFields(types, SubSeq(bytes, TypeLen(types[i]) + 1, Len(bytes)), i + 1)

\* unpack_output_packet, lines 454-498 (handle_string_filed for a string; the
\* text is the payload's bytes)
unpack_output_packet(output_message, payload) ==
    LET fields == output_message.payload
        first == CHOOSE i \in 1..Len(fields) :
                    fields[i].type = "string" /\ \A j \in 1..(i - 1) : fields[j].type # "string"
        types == [i \in 1..Len(fields) |-> fields[i].type]
        data == UnpackFields(types, payload, 1)
    IN  IF HasString(output_message)
        THEN <<[name |-> fields[first].name, kind |-> "str", v |-> payload]>>
        ELSE [i \in 1..Len(fields) |->
                 [name |-> fields[i].name, kind |-> data[i].kind, v |-> data[i].v]]

\* unpack_output_packet_var_len, lines 507-597: the repetition count read from
\* the payload (0 if the bytes are not there: struct.pack raises), and whether
\* the payload has the bytes of the fields and of the further repetitions
VarNumOf(output_message, payload) ==
    IF output_message.var_num.idx + 1 <= Len(payload)
    THEN payload[output_message.var_num.idx + 1] ELSE 0

VarLenLength(output_message, var_num) ==
    LET fields == output_message.payload
        group == PackLength(fields, output_message.var_num.field_idx + 1)
    IN  PackLength(fields, 1) + group * (var_num - 1)

\* unpack_output_packet_var_len, lines 591-607: field_names has the names of
\* the entry and var_num[0] - 1 times the names after the first
\* var_fileld_num + 1; payload_data[idx] raises IndexError when these are
\* more than the values unpacked
VarLenIndexError(output_message, var_num) ==
    LET fields == output_message.payload
        var_fileld_num == Len(fields) - output_message.var_num.field_idx
        more == IF Len(fields) > var_fileld_num + 1
                THEN Len(fields) - (var_fileld_num + 1) ELSE 0
    IN  var_num >= 2 /\ more > var_fileld_num

unpack_output_packet_var_len_raises(output_message, payload) ==
    \/ output_message.var_num.idx + 1 > Len(payload)
    \/ /\ VarNumOf(output_message, payload) # 0
       /\ Len(payload) # VarLenLength(output_message, VarNumOf(output_message, payload))
    \/ VarLenIndexError(output_message, VarNumOf(output_message, payload))

\* the values struct.unpack yields for a variable-length payload
VarLenPayloadData(output_message, payload) ==
    LET fields == output_message.payload
        cn == output_message.var_num.field_idx
        types == [i \in 1..Len(fields) |-> fields[i].type]
    IN  UnpackFields(types \o Repeat(SubSeq(types, cn + 1, Len(types)),
                                     VarNumOf(output_message, payload) - 1),
                     payload, 1)

\* Msg_060C_topic_0A.__init__ reads self.flags_leverarm_from_imu_center before
\* anything has set it (message.py line 44): AttributeError, for every frame
Msg_060C_topic_0A_init_raises(fr) == TRUE

\* message.py defines no pack_user_configuration_json_msg, which line 340 of
\* the driver calls on the object: AttributeError
pack_user_configuration_json_msg_raises == TRUE

\* message.py defines no Msg_NTRIP, which line 407 of the driver names: NameError
Msg_NTRIP_raises == TRUE

\* lines 344-350, 394-403, 414-419, 426-431: cmd_type = self.get_web_cmds(kind),
\* and the message goes to every web client if cmd_type is not None.  The type
\* of a setResponse to a user-configuration command is cmd_type itself.
push_if_pending(ms, cmds, clients, kind, messageType, packetType, packet) ==
    LET got == get_web_cmds(cmds, kind)
    IN  [msgs |-> ms, web_cmds |-> got.cmds,
         out |-> IF got.tp = "none" THEN <<>>
                 ELSE ToWeb(clients, messageType,
                            IF kind = "setUserConfiguration" THEN got.tp ELSE packetType,
                            packet),
         fault |-> "none"]

\* (mutant) the user configuration is pushed whether or not a query is pending
user_configuration_response_Unasked(ms, cmds, clients, fr) ==
    [msgs |-> ms, web_cmds |-> cmds,
     out |-> ToWeb(clients, "queryResponse", "UserConfiguration", fr),
     fault |-> "none"]

\* lines 327-351: sub-id 0x0C, topic 0x0A
user_configuration_response(ms, cmds, clients, fr) ==
    IF Msg_060C_topic_0A_init_raises(fr)
    THEN [msgs |-> ms, web_cmds |-> cmds, out |-> <<>>, fault |-> "AttributeError"]
    ELSE IF pack_user_configuration_json_msg_raises
    THEN [msgs |-> Put(ms, "Msg_060C_topic_0A", fr), web_cmds |-> cmds, out |-> <<>>,
          fault |-> "AttributeError"]
    ELSE push_if_pending(Put(ms, "Msg_060C_topic_0A", fr), cmds, clients,
                         "queryUserConfiguration", "queryResponse", "UserConfiguration", fr)

\* lines 352-366: sub-id 0x0C, topic 0x04.  No user configuration is ever
\* cached (line 337 is not reached), so line 363 finds none to update.
internal_lever_arm_message(ms, cmds, payload) ==
    IF Len(payload) < 2
    THEN [msgs |-> ms, web_cmds |-> cmds, out |-> <<>>, fault |-> "IndexError"]
    ELSE IF payload[2] = 0
    THEN [msgs |-> ms, web_cmds |-> cmds, out |-> <<>>, fault |-> "none"]
    ELSE IF Len(payload) < 26
    THEN [msgs |-> ms, web_cmds |-> cmds, out |-> <<>>, fault |-> "struct.error"]
    ELSE [msgs |-> Put(ms, "Internal Lever-arm",
                       <<[name |-> "Topic", kind |-> "int", v |-> 4],
                         [name |-> "Validity", kind |-> "int", v |-> payload[2]],
                         [name |-> "Internal lever-arm vector", kind |-> "float",
                          v |-> SubSeq(payload, 3, 26)]>>),
          web_cmds |-> cmds, out |-> <<>>, fault |-> "none"]

\* (mutant) every response other than NACK counts as acknowledged
ResponseStatus_NackOnly(response) == IF response = 2 THEN 1 ELSE 0

\* lines 387-392
ResponseStatus(response) == IF response = 1 THEN 0 ELSE 1

\* lines 380-404: sub-id 0x06, System Response
system_response(ms, cmds, clients, payload) ==
    IF Len(payload) < 4
    THEN [msgs |-> ms, web_cmds |-> cmds, out |-> <<>>, fault |-> "IndexError"]
    ELSE IF payload[1] = 6 /\ payload[2] = 13 /\ payload[4] = 10
    THEN push_if_pending(ms, cmds, clients, "setUserConfiguration", "setResponse", "none",
                         <<[name |-> "returnStatus", kind |-> "int",
                            v |-> ResponseStatus(payload[3])]>>)
    ELSE [msgs |-> ms, web_cmds |-> cmds, out |-> <<>>, fault |-> "none"]

\* RoverDriver.msg_typeid_06_handler, lines 314-435: the cache, the pending
\* commands, what is handed on and the exception that leaves it.  The
\* firmware text (topic 0x0C) is ASCII in every frame fed.
msg_typeid_06_handler(ms, cmds, clients, ap, fr) ==
    LET payload  == PayloadOf(fr)
        sub_id   == fr[4]
        topic_tp == fr[7]
        same     == [msgs |-> ms, web_cmds |-> cmds, out |-> <<>>, fault |-> "none"]
    IN  CASE sub_id = 12 /\ topic_tp = 10 -> user_configuration_response(ms, cmds, clients, fr)
          [] sub_id = 12 /\ topic_tp = 4 -> internal_lever_arm_message(ms, cmds, payload)
          [] sub_id = 12 /\ topic_tp = 12 ->
                LET data == <<[name |-> "firmwareVersion", kind |-> "str",
                               v |-> Slice(payload, 1, Len(payload))]>>
                IN  [same EXCEPT !.out = ToApp(ap, "FirmwareVersion", data)
                                    \o ToWeb(clients, "queryResponse", "FirmwareVersion", data)]
          [] sub_id = 6 -> system_response(ms, cmds, clients, payload)
          [] sub_id = 10 /\ topic_tp = 3 /\ Len(payload) = 155 /\ Msg_NTRIP_raises ->
                [same EXCEPT !.fault = "NameError"]
          [] sub_id = 10 /\ topic_tp \in {4, 5} ->
                push_if_pending(ms, cmds, clients, "setNTRIPConfiguration", "setResponse",
                                "NTRIPConfiguration",
                                <<[name |-> "returnStatus", kind |-> "int",
                                   v |-> IF topic_tp = 4 THEN 0 ELSE 1]>>)
          [] OTHER -> same

\* msg_typeid_06_handler: an exception leaves it
msg_typeid_06_handler_raises(fr) ==
    msg_typeid_06_handler(EmptyCache, <<>>, {}, "none", fr).fault # "none"

\* parse_frame, lines 270-312, with the handlers it calls: the cache, the
\* pending commands, what is handed on and the exception that leaves it.
\* No catalogue entry modelled has a Scaling, so change_scale changes nothing.
parse_frame(ms, cmds, clients, ap, fr) ==
    LET header == SubSeq(fr, 1, PAYLOAD_LEN_IDX)
        op     == output_packet_of(header)
        payload == PayloadOf(fr)
        raise(f) == [msgs |-> ms, web_cmds |-> cmds, out |-> <<>>, fault |-> f]
        handed(d) == [msgs |-> d.msgs, web_cmds |-> cmds, out |-> d.out, fault |-> d.fault]
    IN  IF op # <<>>
        THEN IF is_var_len_frame(op[1])
             THEN IF unpack_output_packet_var_len_raises(op[1], payload)
                  THEN raise("struct.error")
                  ELSE handed(dispatch_packet(ms, clients, ap, op[1].name,
                                 unpack_output_packet_var_len(op[1],
                                     VarLenPayloadData(op[1], payload),
                                     VarNumOf(op[1], payload)),
                                 TRUE))
             ELSE IF unpack_output_packet_raises(op[1], payload)
                  THEN raise("struct.error")
                  ELSE handed(dispatch_packet(ms, clients, ap, op[1].name,
                                 unpack_output_packet(op[1], payload), FALSE))
        ELSE IF SubSeq(fr, 1, 3) = HEADER_06
             THEN msg_typeid_06_handler(ms, cmds, clients, ap, fr)
             ELSE [msgs |-> ms, web_cmds |-> cmds, out |-> <<>>, fault |-> "none"]

\* an exception leaves parse_frame
parse_frame_raises(fr) == parse_frame(EmptyCache, <<>>, {}, "none", fr).fault # "none"

(***************************************************************************)
(* RoverDriver.parser: one pass of the loop body with the byte `data`      *)
(* taken from the queue (lines 149-185).                                   *)
(***************************************************************************)
\* line 157: the frame is complete when it holds header, payload and checksum
FrameComplete(fr, plen) == 6 + plen + 2 = Len(fr)

\* (mutant) the checksum comparison left out
ChecksumOk_Unchecked(fr, plen) == TRUE

\* lines 160-161: the trailing two bytes are the checksum of the payload
ChecksumOk(fr, plen) ==
    LET cks == check_sum(Slice(fr, PAYLOAD_LEN_IDX + 2, PAYLOAD_LEN_IDX + plen + 2))
    IN  cks[1] = fr[Len(fr) - 1] /\ cks[2] = fr[Len(fr)]

\* (mutant) only the declared length is bounded, not the growing frame
OverLimit_DeclaredOnly(fr, plen) == plen > MAX_FRAME_LIMIT + 1

\* line 169: the frame is given up
OverLimit(fr, plen) == plen > MAX_FRAME_LIMIT \/ Len(fr) > MAX_FRAME_LIMIT

\* line 174: deque(maxlen=3).append
SyncAppend(sp, data) == <<sp[2], sp[3], data>>

IsHeader(sp) == sp = HEADER_05 \/ sp = HEADER_06 \/ sp = HEADER_07

ParserConsume(data) ==
    /\ nparsed' = nparsed + 1
    /\ IF find_header
       THEN LET fr       == Append(frame, data)
                atlen    == PAYLOAD_LEN_IDX + 2 = Len(fr)
                plen     == IF atlen THEN 256 * fr[PAYLOAD_LEN_IDX + 2] + fr[PAYLOAD_LEN_IDX + 1]
                            ELSE payload_len
                complete == ~atlen /\ FrameComplete(fr, payload_len)
                call     == complete /\ ChecksumOk(fr, payload_len)
                done     == parse_frame(msgs, web_cmds, web_clients, app, fr)
                raised   == call /\ done.fault # "none"
                over     == OverLimit(fr, plen)
            IN  /\ frame' = fr
                /\ sync_pattern' = sync_pattern
                /\ dispatched' = IF call
                                 THEN Append(dispatched, [at |-> nparsed + 1, frame |-> fr])
                                 ELSE dispatched
                /\ msgs' = IF call THEN done.msgs ELSE msgs
                /\ web_cmds' = IF call THEN done.web_cmds ELSE web_cmds
                /\ emitted' = IF call THEN done.out ELSE emitted
                /\ hd_op' = IF call
                            THEN [op |-> "parse_frame", name |-> "frame",
                                  fault |-> done.fault, n |-> hd_op.n + 1]
                            ELSE hd_op
                /\ parser_pc' = IF raised THEN "dead" ELSE "run"
                /\ find_header' = IF complete \/ (over /\ ~raised) THEN FALSE ELSE find_header
                /\ payload_len' = IF over /\ ~raised THEN 0 ELSE plen
       ELSE LET sp == SyncAppend(sync_pattern, data)
            IN  /\ sync_pattern' = sp
                /\ frame' = IF IsHeader(sp) THEN sp ELSE frame
                /\ find_header' = IsHeader(sp)
                /\ parser_pc' = "run"
                /\ UNCHANGED <<payload_len, dispatched, msgs, web_cmds, emitted, hd_op>>

\* lines 137-141: the top of the loop, the cancellation flag read under exit_lock
ParserCheck ==
    /\ parser_pc = "run"
    /\ parser_pc' = IF exit_thread THEN "exited" ELSE "take"
    /\ UNCHANGED <<nparsed, sync_pattern, find_header, frame, payload_len, dispatched>>
    /\ UNCHANGED <<devvars, drvvars, cvars>>
    /\ UNCHANGED noncollect

\* lines 143-185: the queue is empty (sleep 1 ms), or its first byte is taken
ParserTake ==
    /\ parser_pc = "take"
    /\ IF data_queue = <<>>
       THEN /\ parser_pc' = "run"
            /\ UNCHANGED <<nparsed, sync_pattern, find_header, frame, payload_len,
                           dispatched, data_queue, msgs, web_cmds, emitted, hd_op>>
       ELSE /\ data_queue' = Tail(data_queue)
            /\ ParserConsume(Head(data_queue))
    /\ UNCHANGED <<devvars, exit_thread, connection_status, web_clients, cvars>>
    /\ UNCHANGED <<now, expirer_ran, cmd_op, uvars, lvars, lockvars, app, n_reinit, n_on_reinit>>

ParserInit ==
    /\ nparsed = 0
    /\ sync_pattern = <<0, 0, 0>>
    /\ find_header = FALSE
    /\ frame = <<>>
    /\ payload_len = 0
    /\ dispatched = <<>>

(***************************************************************************)
(* SpecParser: the parser thread fed a byte stream made of two segments    *)
(* (well-formed frames, frames with a corrupted trailer, frames declaring  *)
(* a payload over the limit, stray bytes).                                 *)
(***************************************************************************)
MaxJunk == 2        \* stray bytes in one segment
MaxTail == 1        \* payload bytes sent after a declared length of 501

LE16(n) == <<n % 256, n \div 256>>

\* a payload of n bytes: the topic byte, then filler
PayloadBytes(topic, n) == [i \in 1..n |-> IF i = 1 THEN topic ELSE 1]

\* header + sub-id + little-endian length + payload + checksum of the payload
WellFormed(hdr, sub, payload) ==
    <<175, 32, hdr, sub>> \o LE16(Len(payload)) \o payload \o check_sum(payload)

\* the same with trailer byte k (1 or 2) changed
Corrupted(hdr, sub, payload, k) ==
    LET ck == check_sum(payload)
    IN  <<175, 32, hdr, sub>> \o LE16(Len(payload)) \o payload
           \o [ck EXCEPT ![k] = (ck[k] + 1) % 256]

\* the (header class, sub-id, topic, payload length) of the frames fed
ShortShapes ==
    { <<5, 1, 3, 2>>,       \* catalogued GH, payload of the catalogued width
      <<7, 0, 0, 0>>,       \* not catalogued, empty payload
      <<6, 10, 4, 1>>,      \* AF 20 06 0A 01 00 04 04 04: NTRIP set acknowledged
      <<6, 12, 10, 1>> }    \* AF 20 06 0C .. 0A: user configuration
LongShapes ==
    { <<7, 0, 9, MAX_FRAME_LIMIT - 8>>,     \* frame of 500 bytes
      <<7, 0, 9, MAX_FRAME_LIMIT - 7>>,     \* frame of 501 bytes
      <<7, 0, 9, MAX_FRAME_LIMIT - 6>> }    \* frame of 502 bytes

Segments ==
    [kind : {"good"}, shape : ShortShapes \cup LongShapes, k : {0}, n : {0}]
    \cup [kind : {"badck"}, shape : ShortShapes, k : {1, 2}, n : {0}]
    \cup [kind : {"declared"}, shape : {<<5, 1, 3, MAX_FRAME_LIMIT + 1>>}, k : {0}, n : 0..MaxTail]
    \cup [kind : {"junk"}, shape : {<<0, 0, 0, 0>>}, k : {0, 175}, n : 1..MaxJunk]

SegBytes(g) ==
    CASE g.kind = "good" ->
            WellFormed(g.shape[1], g.shape[2], PayloadBytes(g.shape[3], g.shape[4]))
      [] g.kind = "badck" ->
            Corrupted(g.shape[1], g.shape[2], PayloadBytes(g.shape[3], g.shape[4]), g.k)
      [] g.kind = "declared" ->
            <<175, 32, g.shape[1], g.shape[2]>> \o LE16(g.shape[4]) \o Fill(g.n, 1)
      [] OTHER -> Fill(g.n, g.k)

Stream == SegBytes(segs[1]) \o SegBytes(segs[2])

\* RoverDriver.__init__, lines 42-44
WebCmdsInit ==
    /\ web_clients_lock = "free"
    /\ web_cmds = <<>>
    /\ now = 0
    /\ expirer_ran = FALSE
    /\ cmd_op = [op |-> "init", kind |-> "none", res |-> "none", n |-> 0]

\* RoverDriver.__init__, line 46: self.msgs = {}, no user configuration cached
NoUserConfiguration ==
    /\ antenna_num = 0
    /\ flags_leverarm_from_imu_center = TRUE
    /\ internal_lever_arm = <<>>
    /\ GNSS_lever_arm_center = <<>>
    /\ GNSS_lever_arm_housing_mark = <<>>
    /\ imu_rotation_matrix = <<>>
    /\ n_updates = 0
    /\ msg_op = [op |-> "none", fault |-> "none", shaped |-> TRUE]
    /\ msg_faulted = FALSE

\* RoverLogApp.__init__, lines 19-29: one file and one counter per catalogued name
PacketNames == {rover_properties.outputPackets[i].name :
                    i \in 1..Len(rover_properties.outputPackets)}

RoverLogAppInit ==
    /\ first_row = [name \in PacketNames |-> 0]
    /\ log_files = [name \in PacketNames |-> <<>>]
    /\ n_calls = [name \in PacketNames |-> 0]
    /\ log_fault = "none"
    /\ app_data = <<>>

\* RoverDriver.__init__, lines 45-46: no application, nothing cached
HandlersInit ==
    /\ msgs = EmptyCache
    /\ app = "none"
    /\ emitted = <<>>
    /\ hd_op = [op |-> "none", name |-> "none", fault |-> "none", n |-> 0]
    /\ n_reinit = 0
    /\ n_on_reinit = 0

\* the state RoverDriver.__init__ and reinit leave
DriverInit ==
    /\ exit_thread = FALSE
    /\ connection_status = 0
    /\ cmt_open = FALSE
    /\ written = <<>>
    /\ receiver_pc = "idle"
    /\ main_pc = "open"
    /\ result = "none"
    /\ ds_log = <<>>
    /\ read_fault = FALSE
    /\ interrupted = FALSE

InitParser ==
    /\ segs \in Segments \X Segments
    /\ nrecv = Len(Stream)
    /\ data_queue = Stream
    /\ web_clients = {}
    /\ DriverInit
    /\ ParserInit
    /\ parser_pc = "run"
    /\ WebCmdsInit
    /\ NoUserConfiguration
    /\ RoverLogAppInit
    /\ HandlersInit

NextParser == ParserCheck \/ ParserTake

SpecParser == InitParser /\ [][NextParser]_vars

(***************************************************************************)
(* SpecCollect: one call of start_collection after reinit.  The device     *)
(* sends the stream; every read may return nothing, the next bytes, or     *)
(* fail; every write may fail; the operator may interrupt the wait loop.   *)
(***************************************************************************)
MaxRead == 2        \* bytes one cmt.read returns at most
MaxClients == 2     \* web clients that may be registered

Clients == 1..MaxClients

Terminated(pc) == pc \in {"exited", "dead"}

\* RoverDriver.write (lines 255-262): the command goes out, or the write fails
\* and the cancellation flag is set
WriteOk(cmd) ==
    /\ written' = Append(written, cmd)
    /\ exit_thread' = exit_thread

\* (mutant) a failed write leaves the cancellation flag alone
WriteFault_NoFlag ==
    /\ written' = written
    /\ exit_thread' = exit_thread

WriteFault ==
    /\ written' = written
    /\ exit_thread' = TRUE

write(cmd) == WriteOk(cmd) \/ WriteFault

\* (mutant) the user configuration is asked for first
StartupQueries_UserConfigurationFirst ==
    <<"queryUserConfiguration", "queryInternalLeverArm", "queryNTRIPConfiguration">>

\* query_rover_cfg_setup (lines 881-887): the three start-up queries, in order
StartupQueries ==
    <<"queryInternalLeverArm", "queryUserConfiguration", "queryNTRIPConfiguration">>

\* (mutant) every DeviceStatus pushed reports the connection
PushDeviceStatus_Connected(st) ==
    ds_log' = Append(ds_log, [returnStatus |-> 0, to |-> web_clients])

\* the DeviceStatus event pushed to every registered client (lines 226-230, 240-244)
PushDeviceStatus(st) ==
    ds_log' = Append(ds_log, [returnStatus |-> st, to |-> web_clients])

\* (mutant) the failed open is reported to the web clients
MainOpenFails_Reported ==
    /\ main_pc = "open"
    /\ main_pc' = "returned"
    /\ result' = "retry"
    /\ PushDeviceStatus(1)
    /\ UNCHANGED <<devvars, drvvars, pvars, receiver_pc, read_fault, interrupted>>
    /\ UNCHANGED noncollect

\* line 213: cmt.open() fails and start_collection returns True
MainOpenFails ==
    /\ main_pc = "open"
    /\ main_pc' = "returned"
    /\ result' = "retry"
    /\ UNCHANGED <<devvars, drvvars, pvars, receiver_pc, ds_log, read_fault, interrupted>>
    /\ UNCHANGED noncollect

\* lines 213-221: the transport opens, the receiver and the parser are
\* started; the new parser thread sets its locals (lines 121-135)
MainOpenStart ==
    /\ main_pc = "open"
    /\ cmt_open' = TRUE
    /\ receiver_pc' = "run"
    /\ parser_pc' = "run"
    /\ sync_pattern' = <<0, 0, 0>>
    /\ find_header' = FALSE
    /\ frame' = <<>>
    /\ payload_len' = 0
    /\ main_pc' = "query1"
    /\ UNCHANGED <<segs, nrecv, written, drvvars, result, ds_log, read_fault, interrupted>>
    /\ UNCHANGED <<nparsed, dispatched>>
    /\ UNCHANGED noncollect

\* line 223: query_rover_cfg_setup, one write at a time
MainQuery ==
    /\ \E i \in 1..3 :
          /\ main_pc = <<"query1", "query2", "query3">>[i]
          /\ write(StartupQueries[i])
          /\ main_pc' = <<"query2", "query3", "status1">>[i]
    /\ UNCHANGED <<segs, nrecv, cmt_open, data_queue, connection_status, web_clients>>
    /\ UNCHANGED <<pvars, receiver_pc, result, ds_log, read_fault, interrupted>>
    /\ UNCHANGED noncollect

\* line 224
MainStatus1 ==
    /\ main_pc = "status1"
    /\ connection_status' = 1
    /\ main_pc' = "push0"
    /\ UNCHANGED <<devvars, exit_thread, data_queue, web_clients, pvars>>
    /\ UNCHANGED <<receiver_pc, result, ds_log, read_fault, interrupted>>
    /\ UNCHANGED noncollect

\* lines 226-230
MainPush0 ==
    /\ main_pc = "push0"
    /\ PushDeviceStatus(0)
    /\ main_pc' = "wait"
    /\ UNCHANGED <<devvars, drvvars, pvars, receiver_pc, result, read_fault, interrupted>>
    /\ UNCHANGED noncollect

\* handle_KeyboardInterrupt, lines 193-197: the flag is read under exit_lock
MainWaitCheck ==
    /\ main_pc = "wait"
    /\ main_pc' = IF exit_thread THEN "join" ELSE "sleep"
    /\ UNCHANGED <<devvars, drvvars, pvars, receiver_pc, result, ds_log, read_fault, interrupted>>
    /\ UNCHANGED noncollect

\* handle_KeyboardInterrupt, line 200: the sleep of 0.1 s ends
MainWake ==
    /\ main_pc = "sleep"
    /\ main_pc' = "wait"
    /\ UNCHANGED <<devvars, drvvars, pvars, receiver_pc, result, ds_log, read_fault, interrupted>>
    /\ UNCHANGED noncollect

\* handle_KeyboardInterrupt, lines 201-206, and lines 232-233: the operator
\* interrupts the sleep; the flag is set and start_collection returns False
MainInterrupt ==
    /\ main_pc = "sleep"
    /\ exit_thread' = TRUE
    /\ interrupted' = TRUE
    /\ result' = "stop"
    /\ main_pc' = "returned"
    /\ UNCHANGED <<devvars, data_queue, connection_status, web_clients, pvars>>
    /\ UNCHANGED <<receiver_pc, ds_log, read_fault>>
    /\ UNCHANGED noncollect

\* (mutant) start_collection goes on without joining the threads
MainJoin_NoWait ==
    /\ main_pc = "join"
    /\ main_pc' = "status0"
    /\ UNCHANGED <<devvars, drvvars, pvars, receiver_pc, result, ds_log, read_fault, interrupted>>
    /\ UNCHANGED noncollect

\* lines 235-237: join returns once both threads have ended
MainJoin ==
    /\ main_pc = "join"
    /\ Terminated(receiver_pc)
    /\ Terminated(parser_pc)
    /\ main_pc' = "status0"
    /\ UNCHANGED <<devvars, drvvars, pvars, receiver_pc, result, ds_log, read_fault, interrupted>>
    /\ UNCHANGED noncollect

\* line 239
MainStatus0 ==
    /\ main_pc = "status0"
    /\ connection_status' = 0
    /\ main_pc' = "push1"
    /\ UNCHANGED <<devvars, exit_thread, data_queue, web_clients, pvars>>
    /\ UNCHANGED <<receiver_pc, result, ds_log, read_fault, interrupted>>
    /\ UNCHANGED noncollect

\* lines 240-244
MainPush1 ==
    /\ main_pc = "push1"
    /\ PushDeviceStatus(1)
    /\ main_pc' = "close"
    /\ UNCHANGED <<devvars, drvvars, pvars, receiver_pc, result, read_fault, interrupted>>
    /\ UNCHANGED noncollect

\* lines 246-247
MainClose ==
    /\ main_pc = "close"
    /\ cmt_open' = FALSE
    /\ result' = "retry"
    /\ main_pc' = "returned"
    /\ UNCHANGED <<segs, nrecv, written, drvvars, pvars>>
    /\ UNCHANGED <<receiver_pc, ds_log, read_fault, interrupted>>
    /\ UNCHANGED noncollect

MainStep ==
    \/ MainOpenFails \/ MainOpenStart \/ MainQuery \/ MainStatus1 \/ MainPush0
    \/ MainWaitCheck \/ MainWake \/ MainJoin \/ MainStatus0 \/ MainPush1 \/ MainClose

\* receiver, lines 96-101: the flag is read; if set the transport is closed
ReceiverCheck ==
    /\ receiver_pc = "run"
    /\ IF exit_thread
       THEN cmt_open' = FALSE /\ receiver_pc' = "exited"
       ELSE cmt_open' = cmt_open /\ receiver_pc' = "read"
    /\ UNCHANGED <<segs, nrecv, written, drvvars, pvars>>
    /\ UNCHANGED <<main_pc, result, ds_log, read_fault, interrupted>>
    /\ UNCHANGED noncollect

\* (mutant) the receiver returns without setting the cancellation flag
ReceiverOnFault_NoFlag ==
    /\ exit_thread' = exit_thread
    /\ receiver_pc' = "exited"

\* receiver, lines 105-109: cmt.read raises
ReceiverOnFault ==
    /\ exit_thread' = TRUE
    /\ receiver_pc' = "exited"

ReceiverReadFault ==
    /\ receiver_pc = "read"
    /\ read_fault' = TRUE
    /\ ReceiverOnFault
    /\ UNCHANGED <<devvars, data_queue, connection_status, web_clients, pvars>>
    /\ UNCHANGED <<main_pc, result, ds_log, interrupted>>
    /\ UNCHANGED noncollect

\* (mutant) the bytes read are put at the front of the queue
ReceiverRead_AtFront ==
    /\ receiver_pc = "read"
    /\ \E n \in 0..MaxRead :
          /\ nrecv + n <= Len(Stream)
          /\ nrecv' = nrecv + n
          /\ data_queue' = SubSeq(Stream, nrecv + 1, nrecv + n) \o data_queue
    /\ receiver_pc' = "run"
    /\ UNCHANGED <<segs, cmt_open, written, exit_thread, connection_status, web_clients>>
    /\ UNCHANGED <<pvars, main_pc, result, ds_log, read_fault, interrupted>>
    /\ UNCHANGED noncollect

\* receiver, lines 104, 111-118: cmt.read returns n bytes (n = 0: sleep 1 ms),
\* which are put on the queue in order
ReceiverRead ==
    /\ receiver_pc = "read"
    /\ \E n \in 0..MaxRead :
          /\ nrecv + n <= Len(Stream)
          /\ nrecv' = nrecv + n
          /\ data_queue' = data_queue \o SubSeq(Stream, nrecv + 1, nrecv + n)
    /\ receiver_pc' = "run"
    /\ UNCHANGED <<segs, cmt_open, written, exit_thread, connection_status, web_clients>>
    /\ UNCHANGED <<pvars, main_pc, result, ds_log, read_fault, interrupted>>
    /\ UNCHANGED noncollect

ReceiverStep == ReceiverCheck \/ ReceiverReadFault \/ ReceiverRead

ParserStep == ParserCheck \/ ParserTake

\* the frames the device sends in SpecCollect
CollectSegments ==
    { g \in Segments : g.kind = "good" /\ g.shape \in {<<7, 0, 0, 0>>, <<6, 12, 10, 1>>} }
    \cup { g \in Segments : g.kind = "junk" /\ g.n = 1 /\ g.k = 0 }

InitCollect ==
    /\ segs \in CollectSegments \X { g \in Segments : g.kind = "junk" /\ g.n = 1 /\ g.k = 0 }
    /\ nrecv = 0
    /\ data_queue = <<>>
    /\ web_clients \in SUBSET Clients
    /\ DriverInit
    /\ ParserInit
    /\ parser_pc = "idle"
    /\ WebCmdsInit
    /\ NoUserConfiguration
    /\ RoverLogAppInit
    /\ HandlersInit

NextCollect == MainStep \/ MainInterrupt \/ ReceiverStep \/ ParserStep

SpecCollect == InitCollect /\ [][NextCollect]_vars

\* every thread that can take a step eventually takes one; the operator's
\* interrupt is not owed
FairCollect ==
    /\ SpecCollect
    /\ WF_vars(MainStep)
    /\ WF_vars(ReceiverStep)
    /\ WF_vars(ParserStep)

(***************************************************************************)
(* SpecCmds: the pending web commands.  handle_cmd_msg registers them,     *)
(* get_web_cmds looks one up when the device answers, and the expirer      *)
(* thread makes one pass in every tick of 0.5 s.                           *)
(***************************************************************************)
MaxCmds == 2        \* pending commands at one time
MaxTime == 12       \* the clock stops here (6 s)

TIME_OUT == 5           \* seconds
TicksPerSecond == 2     \* time.sleep(0.5)

\* the kinds handle_cmd_msg registers (lines 810, 815, 826, 851, 867)
CmdKinds ==
    {"queryUserConfiguration", "queryNTRIPConfiguration", "setIMURotationMatrix",
     "setGNSSAntennaLeverArm", "setNTRIPConfiguration"}

\* the kinds msg_typeid_06_handler looks up (lines 344, 394, 414, 426)
LookupKinds ==
    {"queryUserConfiguration", "setUserConfiguration", "queryNTRIPConfiguration",
     "setNTRIPConfiguration"}

\* (mutant) the comparison made against six seconds
TimedOut_Late(cmd, t) == t - cmd.time > (TIME_OUT + 1) * TicksPerSecond

\* line 897: (now - time).total_seconds() > TIME_OUT
TimedOut(cmd, t) == t - cmd.time > TIME_OUT * TicksPerSecond

\* lines 895-898: the loop over reversed(self.web_cmds).  it is the index the
\* reversed iterator reads next (it stops once it is outside the list as it is
\* now), idx counts the entries seen, n0 is the length before the loop.
RECURSIVE ExpireScan(_, _, _, _, _)
ExpireScan(cmds, it, idx, n0, t) ==
    IF it < 0 \/ it >= Len(cmds) THEN cmds
    ELSE LET cmd == cmds[it + 1]
         IN  ExpireScan(IF TimedOut(cmd, t) THEN DelAt(cmds, n0 - idx - 1) ELSE cmds,
                        it - 1, idx + 1, n0, t)

\* one pass of auto_del_timeout_web_cmds over the list, at time t
auto_del_timeout_web_cmds(cmds, t) == ExpireScan(cmds, Len(cmds) - 1, 0, Len(cmds), t)

\* handle_cmd_msg registers a pending command with the current time
RegisterCmd ==
    /\ Len(web_cmds) < MaxCmds
    /\ \E kind \in CmdKinds :
          /\ web_cmds' = Append(web_cmds, [kind |-> kind, time |-> now])
          /\ cmd_op' = [op |-> "register", kind |-> kind, res |-> "none", n |-> 0]
    /\ UNCHANGED <<now, expirer_ran>>
    /\ UNCHANGED noncmds

\* msg_typeid_06_handler looks a pending command up
LookupCmd ==
    /\ \E kind \in LookupKinds :
          LET got == get_web_cmds(web_cmds, kind)
          IN  /\ web_cmds' = got.cmds
              /\ cmd_op' = [op |-> "get", kind |-> kind, res |-> got.tp,
                           n |-> Len(web_cmds) - Len(got.cmds)]
    /\ UNCHANGED <<now, expirer_ran>>
    /\ UNCHANGED noncmds

\* the expirer thread wakes and makes its pass (lines 893-899)
ExpirerPass ==
    /\ ~expirer_ran
    /\ web_cmds' = auto_del_timeout_web_cmds(web_cmds, now)
    /\ expirer_ran' = TRUE
    /\ cmd_op' = [op |-> "expire", kind |-> "none", res |-> "none",
                  n |-> Len(web_cmds) - Len(auto_del_timeout_web_cmds(web_cmds, now))]
    /\ now' = now
    /\ UNCHANGED noncmds

\* half a second passes; the expirer has made its pass of the tick that ends
Tick ==
    /\ expirer_ran
    /\ now < MaxTime
    /\ now' = now + 1
    /\ expirer_ran' = FALSE
    /\ cmd_op' = [op |-> "tick", kind |-> "none", res |-> "none", n |-> 0]
    /\ web_cmds' = web_cmds
    /\ UNCHANGED noncmds

\* the driver constructed, no collection started, the device silent
CollectIdle_AnyClients ==
    /\ segs = <<[kind |-> "junk", shape |-> <<0, 0, 0, 0>>, k |-> 0, n |-> 1],
                [kind |-> "junk", shape |-> <<0, 0, 0, 0>>, k |-> 0, n |-> 1]>>
    /\ nrecv = 0
    /\ data_queue = <<>>
    /\ web_clients \in SUBSET Clients
    /\ DriverInit
    /\ ParserInit
    /\ parser_pc = "idle"

CollectIdle ==
    /\ segs = <<[kind |-> "junk", shape |-> <<0, 0, 0, 0>>, k |-> 0, n |-> 1],
                [kind |-> "junk", shape |-> <<0, 0, 0, 0>>, k |-> 0, n |-> 1]>>
    /\ nrecv = 0
    /\ data_queue = <<>>
    /\ web_clients = {}
    /\ DriverInit
    /\ ParserInit
    /\ parser_pc = "idle"

InitCmds ==
    /\ WebCmdsInit
    /\ CollectIdle
    /\ NoUserConfiguration
    /\ RoverLogAppInit
    /\ HandlersInit

NextCmds == RegisterCmd \/ LookupCmd \/ ExpirerPass \/ Tick

SpecCmds == InitCmds /\ [][NextCmds]_vars

(***************************************************************************)
(* SpecUserCfg: one Msg_060C_topic_0A object as unpack_msg_060C_topic_0A   *)
(* leaves it, and calls of its setters and of                              *)
(* update_GNSS_lever_arm_by_internal_lever_arm.  Lever arms are given in   *)
(* hundredths of a millimetre, a tenth of the raw unit of 1e-4 m.          *)
(***************************************************************************)
MaxAntennas == 2    \* antenna_num at most (the mask allows 3)
MaxUpdates == 2     \* calls of update_GNSS_lever_arm_by_internal_lever_arm

\* int(p / self.SCALING_LEVER_ARM): int() truncates towards zero
ToRaw(p) == IF p >= 0 THEN p \div 10 ELSE -((-p) \div 10)
RawList(ps) == [i \in 1..Len(ps) |-> ToRaw(ps[i])]

\* for an in range(n): target.append([base[an][i] + sign*internal[i] for i in range(3)])
\* from an on; an index outside a list raises IndexError and leaves what was
\* appended so far
RECURSIVE AppendAll(_, _, _, _, _, _)
AppendAll(target, base, internal, sign, an, n) ==
    IF an >= n THEN [list |-> target, fault |-> "none"]
    ELSE IF an >= Len(base) \/ Len(base[an + 1]) < 3 \/ Len(internal) < 3
    THEN [list |-> target, fault |-> "IndexError"]
    ELSE AppendAll(Append(target, [i \in 1..3 |-> base[an + 1][i] + sign * internal[i]]),
                   base, internal, sign, an + 1, n)

\* lines 275-276 and 296-297: the check made before anything is stored
LeverArmCheck(lever_arm) ==
    IF Len(lever_arm) # antenna_num THEN "ValueError"
    ELSE IF Len(lever_arm) = 0 THEN "IndexError"
    ELSE IF Len(lever_arm[1]) # 3 THEN "ValueError"
    ELSE "none"

\* lines 278-280 and 299-301: the list built from the input
RawLeverArm(lever_arm) == [an \in 1..antenna_num |-> RawList(lever_arm[an])]

\* the input is exactly antenna_num entries of exactly 3 components each
Shaped(lever_arm) ==
    /\ Len(lever_arm) = antenna_num
    /\ \A an \in 1..Len(lever_arm) : Len(lever_arm[an]) = 3

\* update_GNSS_lever_arm_by_internal_lever_arm, lines 308-316
update_GNSS_lever_arm_by_internal_lever_arm(internal) ==
    LET il == RawList(internal)
        r == IF flags_leverarm_from_imu_center
             THEN AppendAll(GNSS_lever_arm_housing_mark, GNSS_lever_arm_center, il, -1,
                            0, antenna_num)
             ELSE AppendAll(GNSS_lever_arm_center, GNSS_lever_arm_housing_mark, il, 1,
                            0, antenna_num)
    IN  /\ internal_lever_arm' = il
        /\ IF flags_leverarm_from_imu_center
           THEN GNSS_lever_arm_housing_mark' = r.list /\ UNCHANGED GNSS_lever_arm_center
           ELSE GNSS_lever_arm_center' = r.list /\ UNCHANGED GNSS_lever_arm_housing_mark
        /\ msg_op' = [op |-> "update", fault |-> r.fault, shaped |-> TRUE]
        /\ msg_faulted' = (msg_faulted \/ r.fault # "none")

\* set_GNSS_lever_arm_center, lines 274-285
set_GNSS_lever_arm_center(lever_arm) ==
    LET chk == LeverArmCheck(lever_arm)
        r == AppendAll(<<>>, RawLeverArm(lever_arm), internal_lever_arm, -1, 0, antenna_num)
    IN  IF chk # "none"
        THEN /\ UNCHANGED <<GNSS_lever_arm_center, GNSS_lever_arm_housing_mark>>
             /\ msg_op' = [op |-> "set_center", fault |-> chk, shaped |-> Shaped(lever_arm)]
             /\ msg_faulted' = TRUE
        ELSE /\ GNSS_lever_arm_center' = RawLeverArm(lever_arm)
             /\ GNSS_lever_arm_housing_mark' = r.list
             /\ msg_op' = [op |-> "set_center", fault |-> r.fault,
                           shaped |-> Shaped(lever_arm)]
             /\ msg_faulted' = (msg_faulted \/ r.fault # "none")

\* set_GNSS_lever_arm_housing_mark, lines 295-306
set_GNSS_lever_arm_housing_mark(lever_arm) ==
    LET chk == LeverArmCheck(lever_arm)
        r == AppendAll(<<>>, RawLeverArm(lever_arm), internal_lever_arm, 1, 0, antenna_num)
    IN  IF chk # "none"
        THEN /\ UNCHANGED <<GNSS_lever_arm_center, GNSS_lever_arm_housing_mark>>
             /\ msg_op' = [op |-> "set_housing_mark", fault |-> chk,
                           shaped |-> Shaped(lever_arm)]
             /\ msg_faulted' = TRUE
        ELSE /\ GNSS_lever_arm_housing_mark' = RawLeverArm(lever_arm)
             /\ GNSS_lever_arm_center' = r.list
             /\ msg_op' = [op |-> "set_housing_mark", fault |-> r.fault,
                           shaped |-> Shaped(lever_arm)]
             /\ msg_faulted' = (msg_faulted \/ r.fault # "none")

\* (mutant) the matrix is stored before its size is looked at
set_imu_rotation_matrix_StoreFirst(matrix) ==
    /\ imu_rotation_matrix' = matrix
    /\ msg_op' = [op |-> "set_imu", fault |-> IF Len(matrix) # 9 THEN "ValueError" ELSE "none",
                  shaped |-> Len(matrix) = 9]
    /\ msg_faulted' = (msg_faulted \/ Len(matrix) # 9)

\* set_imu_rotation_matrix, lines 262-265
set_imu_rotation_matrix(matrix) ==
    IF Len(matrix) # 9
    THEN /\ imu_rotation_matrix' = imu_rotation_matrix
         /\ msg_op' = [op |-> "set_imu", fault |-> "ValueError", shaped |-> FALSE]
         /\ msg_faulted' = TRUE
    ELSE /\ imu_rotation_matrix' = matrix
         /\ msg_op' = [op |-> "set_imu", fault |-> "none", shaped |-> TRUE]
         /\ msg_faulted' = msg_faulted

\* the inputs of the calls
InternalInputs == {<<10, 20, -30>>, <<-5, 0, 19>>}
LeverEntries == {<<25, 0, -10>>, <<10, 0>>, <<10, 0, 0, 5>>}
LeverArmInputs == UNION {[1..n -> LeverEntries] : n \in 0..(MaxAntennas + 1)}
MatrixInputs == {[i \in 1..n |-> IF i = k THEN 1 ELSE 0] : n \in 8..10, k \in 1..2}
\* the raw lever arms a device reports
DecodedEntries == {<<1, -1, 0>>, <<2, 0, -1>>}

UpdateByInternal ==
    /\ n_updates < MaxUpdates
    /\ n_updates' = n_updates + 1
    /\ \E internal \in InternalInputs : update_GNSS_lever_arm_by_internal_lever_arm(internal)
    /\ UNCHANGED <<antenna_num, flags_leverarm_from_imu_center, imu_rotation_matrix>>
    /\ UNCHANGED nonusercfg

SetCenter ==
    /\ \E lever_arm \in LeverArmInputs : set_GNSS_lever_arm_center(lever_arm)
    /\ UNCHANGED <<antenna_num, flags_leverarm_from_imu_center, internal_lever_arm,
                   imu_rotation_matrix, n_updates>>
    /\ UNCHANGED nonusercfg

SetHousingMark ==
    /\ \E lever_arm \in LeverArmInputs : set_GNSS_lever_arm_housing_mark(lever_arm)
    /\ UNCHANGED <<antenna_num, flags_leverarm_from_imu_center, internal_lever_arm,
                   imu_rotation_matrix, n_updates>>
    /\ UNCHANGED nonusercfg

SetImuRotationMatrix ==
    /\ \E matrix \in MatrixInputs : set_imu_rotation_matrix(matrix)
    /\ UNCHANGED <<antenna_num, flags_leverarm_from_imu_center, internal_lever_arm,
                   GNSS_lever_arm_center, GNSS_lever_arm_housing_mark, n_updates>>
    /\ UNCHANGED nonusercfg

\* the object as unpack_msg_060C_topic_0A fills it (message.py lines 15-44, 72-123)
InitUserCfg ==
    /\ antenna_num \in 0..MaxAntennas
    /\ flags_leverarm_from_imu_center \in BOOLEAN
    /\ internal_lever_arm = <<>>
    /\ \E l \in [1..antenna_num -> DecodedEntries] :
          IF flags_leverarm_from_imu_center
          THEN GNSS_lever_arm_center = l /\ GNSS_lever_arm_housing_mark = <<>>
          ELSE GNSS_lever_arm_housing_mark = l /\ GNSS_lever_arm_center = <<>>
    /\ imu_rotation_matrix = <<1, 0, 0, 0, 1, 0, 0, 0, 1>>
    /\ n_updates = 0
    /\ msg_op = [op |-> "none", fault |-> "none", shaped |-> TRUE]
    /\ msg_faulted = FALSE
    /\ CollectIdle
    /\ WebCmdsInit
    /\ RoverLogAppInit
    /\ HandlersInit

NextUserCfg == UpdateByInternal \/ SetCenter \/ SetHousingMark \/ SetImuRotationMatrix

SpecUserCfg == InitUserCfg /\ [][NextUserCfg]_vars

(***************************************************************************)
(* SpecLog: RoverLogApp fed the packets the driver decodes, fixed-shape    *)
(* and variable-length.  Text is a sequence of tokens <<kind, text, value>>: a field      *)
(* name, a formatted value, a comma or a new-line.                         *)
(***************************************************************************)
MaxCalls == 3       \* calls of on_message
MaxValue == 1       \* decoded values are 0..MaxValue
MaxGroups == 4      \* repetitions in one variable-length packet

Comma == <<",", "", 0>>
NewLine == <<"nl", "", 0>>

\* x[:-1]
DropLast(x) == IF x = <<>> THEN x ELSE SubSeq(x, 1, Len(x) - 1)

\* log, lines 119-139: the format specification applied to a field of the type
FormatSpec(type) ==
    CASE type \in {"uint32", "int32", "uint16", "int16", "uint64", "int64"} -> "d"
      [] type = "double" -> "15.12f"
      [] type = "float" -> "12.8f"
      [] type = "uint8" -> "d"
      [] type \in {"uchar", "char"} -> ""
      [] OTHER -> "3.5f"

\* str.format: 'd' takes integers only, 'f' numbers only
FormatFault(spec, kind) ==
    CASE spec = "" -> "none"
      [] spec = "d" -> IF kind = "int" THEN "none" ELSE "ValueError"
      [] OTHER -> IF kind \in {"int", "float"} THEN "none"
                  ELSE IF kind = "str" THEN "ValueError" ELSE "TypeError"

\* next((x for x in ...['outputPackets'] if x['name'] == packet_type), None)
output_packet_named(packet_type) ==
    LET ps == rover_properties.outputPackets
        hit == {i \in 1..Len(ps) : ps[i].name = packet_type}
    IN  ps[CHOOSE i \in hit : \A j \in hit : i <= j]

\* lines 93-106: the labels of the keys of data, each followed by a comma
RECURSIVE Labels(_, _, _)
Labels(output_packet, data, keyIdx) ==
    IF keyIdx > Len(data) THEN <<>>
    ELSE <<<<"label", output_packet.payload[keyIdx].name, 0>>, Comma>>
            \o Labels(output_packet, data, keyIdx + 1)

\* lines 114-139: the formatted values, each followed by a comma, up to the
\* first value its format refuses
RECURSIVE Cells(_, _, _)
Cells(output_packet, data, keyIdx) ==
    IF keyIdx > Len(data) THEN [text |-> <<>>, fault |-> "none"]
    ELSE LET spec == FormatSpec(output_packet.payload[keyIdx].type)
             f == FormatFault(spec, data[keyIdx].kind)
             rest == Cells(output_packet, data, keyIdx + 1)
         IN  IF f # "none" THEN [text |-> <<>>, fault |-> f]
             ELSE [text |-> <<<<"cell", spec, data[keyIdx].v>>, Comma>> \o rest.text,
                   fault |-> rest.fault]

\* line 87: if not self.first_row[packet_type]
HeaderDue(packet_type) == first_row[packet_type] = 0

\* RoverLogApp.log, lines 75-142
log(data, packet_type) ==
    LET output_packet == output_packet_named(packet_type)
        header == IF HeaderDue(packet_type)
                  THEN DropLast(Labels(output_packet, data, 1)) \o <<NewLine>>
                  ELSE <<>>
        cells == Cells(output_packet, data, 1)
        str == DropLast(cells.text) \o <<NewLine>>
    IN  /\ first_row' = [first_row EXCEPT ![packet_type] = @ + 1]
        /\ log_fault' = cells.fault
        /\ log_files' = IF cells.fault = "none"
                        THEN [log_files EXCEPT ![packet_type] = @ \o header \o str]
                        ELSE log_files

\* the field that holds the repetition count: the one at byte var_num.idx
CountField(output_message) ==
    CHOOSE i \in 1..Len(output_message.payload) :
        PackLength(SubSeq(output_message.payload, 1, i - 1), 1) = output_message.var_num.idx

\* the values of a payload with n repetitions: the count field holds n, the
\* first field of the r-th repetition holds r, every other field holds v
PayloadData(output_message, n, v) ==
    LET payload == output_message.payload
        cn == output_message.var_num.field_idx
        vn == Len(payload) - cn
    IN  [i \in 1..(cn + vn * n) |->
            LET f == IF i <= cn THEN i ELSE cn + 1 + ((i - cn - 1) % vn)
            IN  [kind |-> ValueKind(payload[f].type),
                 v |-> IF i = CountField(output_message) THEN n
                       ELSE IF i > cn /\ f = cn + 1 THEN 1 + ((i - cn - 1) \div vn)
                       ELSE v]]

\* log_var_len, lines 205-234: the formatted values of one repetition
RECURSIVE VarCells(_, _, _)
VarCells(var_fileld_tpyes, key, idx_key) ==
    IF idx_key > Len(key) THEN [text |-> <<>>, fault |-> "none"]
    ELSE IF idx_key > Len(var_fileld_tpyes) THEN [text |-> <<>>, fault |-> "IndexError"]
    ELSE LET spec == FormatSpec(var_fileld_tpyes[idx_key])
             f == FormatFault(spec, key[idx_key].kind)
             rest == VarCells(var_fileld_tpyes, key, idx_key + 1)
         IN  IF f # "none" THEN [text |-> <<>>, fault |-> f]
             ELSE [text |-> <<<<"cell", spec, key[idx_key].v>>, Comma>> \o rest.text,
                   fault |-> rest.fault]

\* log_var_len, lines 185-203: the value an element of data adds to const_str.
\* list(key.values())[0] is the first value of the mapping; the branch of the
\* unknown types subscripts key.values(), which no mapping allows
ConstCell(outputPcktType, key) ==
    IF outputPcktType \notin {"uint32", "int32", "uint16", "int16", "uint64", "int64",
                              "double", "float", "uint8", "uchar", "char"}
    THEN [text |-> <<>>, fault |-> "TypeError"]
    ELSE IF key = <<>> THEN [text |-> <<>>, fault |-> "IndexError"]
    ELSE LET spec == FormatSpec(outputPcktType)
             f == FormatFault(spec, key[1].kind)
         IN  IF f # "none" THEN [text |-> <<>>, fault |-> f]
             ELSE [text |-> <<<<"cell", spec, key[1].v>>, Comma>>, fault |-> "none"]

\* log_var_len, lines 184-241: the loop over the elements of data; what has
\* been written when it ends or an exception leaves it
RECURSIVE VarLenLoop(_, _, _, _, _, _)
VarLenLoop(output_packet, data, idx, const_str, header, wrote) ==
    LET payload == output_packet.payload
        var_fileld_num == Len(payload) - output_packet.var_num.field_idx
        const_fileld_num == Len(payload) - var_fileld_num
        var_fileld_tpyes == [i \in 1..var_fileld_num |-> payload[const_fileld_num + i].type]
    IN  IF idx > Len(data) THEN [written |-> wrote, fault |-> "none"]
        ELSE IF idx <= const_fileld_num
        THEN LET c == ConstCell(payload[idx].type, data[idx])
             IN  IF c.fault # "none" THEN [written |-> wrote, fault |-> c.fault]
                 ELSE VarLenLoop(output_packet, data, idx + 1, const_str \o c.text,
                                 header, wrote)
        ELSE LET var_str == VarCells(var_fileld_tpyes, data[idx], 1)
                 str == DropLast(const_str \o var_str.text) \o <<NewLine>>
             IN  IF var_str.fault # "none" THEN [written |-> wrote, fault |-> var_str.fault]
                 ELSE VarLenLoop(output_packet, data, idx + 1, const_str,
                                 <<>>, wrote \o header \o str)

\* lines 162-167: the names of all fields of the catalogue entry, comma-joined
RECURSIVE PayloadLabels(_, _)
PayloadLabels(payload, i) ==
    IF i > Len(payload) THEN <<>>
    ELSE <<<<"label", payload[i].name, 0>>, Comma>> \o PayloadLabels(payload, i + 1)

\* RoverLogApp.log_var_len, lines 144-241
log_var_len(data, packet_type) ==
    LET output_packet == output_packet_named(packet_type)
        header == IF HeaderDue(packet_type)
                  THEN DropLast(PayloadLabels(output_packet.payload, 1)) \o <<NewLine>>
                  ELSE <<>>
        done == VarLenLoop(output_packet, data, 1, <<>>, header, <<>>)
    IN  /\ first_row' = [first_row EXCEPT ![packet_type] = @ + 1]
        /\ log_fault' = done.fault
        /\ log_files' = [log_files EXCEPT ![packet_type] = @ \o done.written]

\* the decoded packets of one catalogue entry: for a fixed-shape entry an
\* ordered mapping of the field names to values of the kind the field's type
\* decodes to, for a variable-length entry what unpack_output_packet_var_len
\* returns for one to MaxGroups repetitions (parse_frame drops the empty result
\* of a count of 0, line 298)
DecodedPackets(output_packet) ==
    IF is_var_len_frame(output_packet)
    THEN {unpack_output_packet_var_len(output_packet, PayloadData(output_packet, n, v), n) :
             n \in 1..MaxGroups, v \in 0..MaxValue}
    ELSE {[i \in 1..Len(output_packet.payload) |->
             [name |-> output_packet.payload[i].name,
              kind |-> ValueKind(output_packet.payload[i].type),
              v |-> vs[i]]] : vs \in [1..Len(output_packet.payload) -> 0..MaxValue]}

\* the calls of on_message made so far
RECURSIVE TotalCalls(_)
TotalCalls(names) ==
    IF names = {} THEN 0
    ELSE LET name == CHOOSE x \in names : TRUE
         IN  n_calls[name] + TotalCalls(names \ {name})

\* RoverLogApp.on_message(packet_type, data, is_var_len_frame), lines 48-55
on_message ==
    /\ \E packet_type \in PacketNames :
          /\ TotalCalls(PacketNames) < MaxCalls
          /\ n_calls' = [n_calls EXCEPT ![packet_type] = @ + 1]
          /\ \E data \in DecodedPackets(output_packet_named(packet_type)) :
                /\ app_data' = data
                /\ IF is_var_len_frame(output_packet_named(packet_type))
                   THEN log_var_len(data, packet_type)
                   ELSE log(data, packet_type)
    /\ UNCHANGED nonlog

InitLog ==
    /\ RoverLogAppInit
    /\ HandlersInit
    /\ CollectIdle
    /\ WebCmdsInit
    /\ NoUserConfiguration

NextLog == on_message

SpecLog == InitLog /\ [][NextLog]_vars

(***************************************************************************)
(* SpecHandlers: the driver between the parser and its observers.  The     *)
(* parser thread hands decoded packets and AF 20 06 frames to the          *)
(* handlers and the host calls reinit.  After an exception has left a      *)
(* handler the parser thread is gone; the next one starts after reinit.    *)
(***************************************************************************)
MaxHandled == 4     \* handler calls
MaxReinit == 1      \* calls of reinit

\* (mutant) the cache is kept
reinit_KeepCache ==
    /\ cmt_open' = FALSE
    /\ data_queue' = IF data_queue # <<>> THEN Tail(data_queue) ELSE data_queue
    /\ exit_thread' = FALSE
    /\ n_on_reinit' = IF app # "none" THEN n_on_reinit + 1 ELSE n_on_reinit
    /\ msgs' = msgs
    /\ connection_status' = 0
    /\ n_reinit' = n_reinit + 1

\* RoverDriver.reinit, lines 65-76.  data_queue.get() takes one item if the
\* queue is not empty.
reinit ==
    /\ cmt_open' = FALSE
    /\ data_queue' = IF data_queue # <<>> THEN Tail(data_queue) ELSE data_queue
    /\ exit_thread' = FALSE
    /\ n_on_reinit' = IF app # "none" THEN n_on_reinit + 1 ELSE n_on_reinit
    /\ msgs' = EmptyCache
    /\ connection_status' = 0
    /\ n_reinit' = n_reinit + 1

\* the decoded packets handed to packet_handler: the fields it reads, with a
\* Position mode inside (6) and outside (8) the table of mode names
HandledPackets ==
    [name : {"KFN"}, data : {Mapping(NavFields_KFN, <<100, m, 2, 2>>) : m \in {6, 8}}]
    \cup [name : {"CNM"}, data : {Mapping(NavFields_CNM, <<1, 110>>)}]
    \cup [name : {"GH"}, data : {Mapping(NavFields_GH, <<10>>)}]
    \cup [name : {"SA"},
          data : {Mapping(<<"IMU message count", "GNSS message count", "PPS count">>, c) :
                     c \in {<<0, 0, 0>>, <<3, 0, 1>>, <<1, 2, 0>>}}]
    \cup [name : {"NCA"}, data : {Mapping(<<"NTRIP message size">>, <<n>>) : n \in {0, 7}}]
    \cup [name : {"EngineVersion"}, data : {Mapping(<<"Engine version">>, <<1>>)}]

\* a user configuration as the device reports it (message.py lines 72-123):
\* topic 0x0A, no antenna, no extension, the housing mark as reference, the
\* identity matrix, no offset: 93 bytes
UserConfigurationFrame ==
    WellFormed(6, 12, <<10, 0, 4, 0, 0, 0, 0, 0, 0>>
                         \o Fill(6, 0) \o <<240, 63>> \o Fill(30, 0) \o <<240, 63>>
                         \o Fill(30, 0) \o <<240, 63>> \o Fill(12, 0))

\* the AF 20 06 frames handed to msg_typeid_06_handler
HandledFrames ==
    { WellFormed(6, 12, PayloadBytes(10, 1)),               \* user configuration, cut short
      UserConfigurationFrame,
      WellFormed(6, 12, PayloadBytes(4, 26)),               \* internal lever-arm, valid
      WellFormed(6, 12, <<4, 0>>),                          \* internal lever-arm, not valid
      WellFormed(6, 6, <<6, 13, 1, 10>>),                   \* set user configuration: ACK
      WellFormed(6, 6, <<6, 13, 2, 10>>),                   \* NACK
      WellFormed(6, 6, <<6, 13, 0, 10>>),                   \* neither
      WellFormed(6, 6, <<6, 13, 1, 4>>),                    \* response to another topic
      WellFormed(6, 6, <<6, 11, 1, 10>>),                   \* response to a query
      WellFormed(6, 10, <<4>>) }                            \* NTRIP set acknowledged

ParserAlive == hd_op.fault = "none"

\* parse_frame, lines 298-304, for a decoded packet
HandlePacket ==
    /\ ParserAlive
    /\ hd_op.n < MaxHandled
    /\ \E p \in HandledPackets :
          LET done == dispatch_packet(msgs, web_clients, app, p.name, p.data, FALSE)
          IN  /\ msgs' = done.msgs
              /\ emitted' = done.out
              /\ hd_op' = [op |-> "packet", name |-> p.name, fault |-> done.fault,
                           n |-> hd_op.n + 1]
    /\ UNCHANGED <<app, n_reinit, n_on_reinit>>
    /\ UNCHANGED <<collectvars, wvars, uvars, lvars, lockvars>>

\* parse_frame, lines 305-306, for a frame whose header starts AF 20 06
HandleFrame ==
    /\ ParserAlive
    /\ hd_op.n < MaxHandled
    /\ \E fr \in HandledFrames :
          LET done == msg_typeid_06_handler(msgs, web_cmds, web_clients, app, fr)
          IN  /\ msgs' = done.msgs
              /\ web_cmds' = done.web_cmds
              /\ emitted' = done.out
              /\ hd_op' = [op |-> "frame", name |-> fr, fault |-> done.fault,
                           n |-> hd_op.n + 1]
    /\ UNCHANGED <<app, n_reinit, n_on_reinit>>
    /\ UNCHANGED <<collectvars, now, expirer_ran, cmd_op, uvars, lvars, lockvars>>

\* the host calls reinit
HostReinit ==
    /\ n_reinit < MaxReinit
    /\ reinit
    /\ emitted' = <<>>
    /\ hd_op' = [op |-> "reinit", name |-> "none", fault |-> "none", n |-> hd_op.n]
    /\ UNCHANGED <<segs, nrecv, written, web_clients, pvars, cvars, app>>
    /\ UNCHANGED <<wvars, uvars, lvars, lockvars>>

InitHandlers ==
    /\ CollectIdle_AnyClients
    /\ WebCmdsInit
    /\ NoUserConfiguration
    /\ RoverLogAppInit
    /\ msgs = EmptyCache
    /\ app \in {"none", "app"}
    /\ emitted = <<>>
    /\ hd_op = [op |-> "none", name |-> "none", fault |-> "none", n |-> 0]
    /\ n_reinit = 0
    /\ n_on_reinit = 0

NextHandlers == HandlePacket \/ HandleFrame \/ HostReinit

SpecHandlers == InitHandlers /\ [][NextHandlers]_vars

\* SpecResponses: the device's responses met by the commands a web thread
\* has registered
NextResponses == HandleFrame \/ RegisterCmd

SpecResponses == InitHandlers /\ [][NextResponses]_vars

(***************************************************************************)
(* SpecMain: the entry point (file_storage.main): with an application set, *)
(* reinit, find_device and start_collection in a loop, left when           *)
(* start_collection returns False or when the operator interrupts reinit   *)
(* or find_device.  The threads are those of SpecCollect.                  *)
(***************************************************************************)
MaxRounds == 2      \* passes of the loop of main

\* main, line 259, after start_collection has returned True (line 264)
MainReinit ==
    /\ main_pc \in {"reinit", "returned"}
    /\ main_pc = "returned" => result = "retry"
    /\ n_reinit < MaxRounds
    /\ reinit
    /\ main_pc' = "find"
    /\ hd_op' = [op |-> "reinit", name |-> "none", fault |-> "none", n |-> hd_op.n]
    /\ UNCHANGED <<segs, nrecv, written, web_clients, pvars>>
    /\ UNCHANGED <<receiver_pc, result, ds_log, read_fault, interrupted>>
    /\ UNCHANGED <<wvars, uvars, lvars, lockvars, app, emitted>>

\* main, line 260: find_device returns (its result is not read)
MainFindDevice ==
    /\ main_pc = "find"
    /\ main_pc' = "open"
    /\ UNCHANGED <<devvars, drvvars, pvars>>
    /\ UNCHANGED <<receiver_pc, result, ds_log, read_fault, interrupted>>
    /\ UNCHANGED noncollect

\* main, lines 261-263: KeyboardInterrupt in reinit or find_device
MainLoopInterrupt ==
    /\ main_pc \in {"reinit", "find"}
    /\ main_pc' = "interrupted"
    /\ UNCHANGED <<devvars, drvvars, pvars>>
    /\ UNCHANGED <<receiver_pc, result, ds_log, read_fault, interrupted>>
    /\ UNCHANGED noncollect

\* (mutant) the loop is left whatever start_collection returned
MainBreak_Always ==
    /\ main_pc = "returned"
    /\ main_pc' = "stopped"
    /\ UNCHANGED <<devvars, drvvars, pvars>>
    /\ UNCHANGED <<receiver_pc, result, ds_log, read_fault, interrupted>>
    /\ UNCHANGED noncollect

\* main, lines 264-265: start_collection has returned False
MainBreak ==
    /\ main_pc = "returned"
    /\ result = "stop"
    /\ main_pc' = "stopped"
    /\ UNCHANGED <<devvars, drvvars, pvars>>
    /\ UNCHANGED <<receiver_pc, result, ds_log, read_fault, interrupted>>
    /\ UNCHANGED noncollect

MainLoopStep == MainReinit \/ MainFindDevice \/ MainBreak

\* the frames the device sends in SpecMain
MainSegments ==
    { g \in Segments : g.kind = "good" /\ g.shape = <<5, 1, 3, 2>> }

InitMain ==
    /\ segs \in MainSegments \X { g \in Segments : g.kind = "junk" /\ g.n = 1 /\ g.k = 0 }
    /\ nrecv = 0
    /\ data_queue = <<>>
    /\ web_clients = Clients
    /\ exit_thread = FALSE
    /\ connection_status = 0
    /\ cmt_open = FALSE
    /\ written = <<>>
    /\ receiver_pc = "idle"
    /\ main_pc = "reinit"
    /\ result = "none"
    /\ ds_log = <<>>
    /\ read_fault = FALSE
    /\ interrupted = FALSE
    /\ ParserInit
    /\ parser_pc = "idle"
    /\ WebCmdsInit
    /\ NoUserConfiguration
    /\ RoverLogAppInit
    /\ msgs = EmptyCache
    /\ app = "app"
    /\ emitted = <<>>
    /\ hd_op = [op |-> "none", name |-> "none", fault |-> "none", n |-> 0]
    /\ n_reinit = 0
    /\ n_on_reinit = 0

NextMain ==
    \/ MainLoopStep \/ MainLoopInterrupt
    \/ MainStep \/ MainInterrupt \/ ReceiverStep \/ ParserStep

SpecMain == InitMain /\ [][NextMain]_vars

\* every thread that can take a step eventually takes one; the operator's
\* interrupts are not owed
FairMain ==
    /\ SpecMain
    /\ WF_vars(MainLoopStep)
    /\ WF_vars(MainStep)
    /\ WF_vars(ReceiverStep)
    /\ WF_vars(ParserStep)

(***************************************************************************)
(* SpecWeb: handle_cmd_msg, called by the web server for the messages of   *)
(* the web clients, on a driver whose cache holds a user configuration or  *)
(* none.  A branch that registers a pending command and then writes is two *)
(* steps (the two are separate lock regions, lines 809-812); every other   *)
(* branch is one step.  The command pack_msg_060D builds is written as     *)
(* "msg_060D_cmd"; what it encodes is the state of the object.             *)
(***************************************************************************)
MaxWeb == 2         \* calls of handle_cmd_msg

\* sorted(S) for a set of integers
RECURSIVE Sorted(_)
Sorted(S) ==
    IF S = {} THEN <<>>
    ELSE LET lo == CHOOSE x \in S : \A y \in S : x <= y
         IN  <<lo>> \o Sorted(S \ {lo})

\* lines 841-847: the lever arms of the packet, ordered by Antenna_ID; of two
\* entries with one Antenna_ID the later is kept
LeverArmOf(packet) ==
    LET ids == {packet.arms[i].Antenna_ID : i \in 1..packet.Antenna_num}
        last(id) == CHOOSE i \in 1..packet.Antenna_num :
                       /\ packet.arms[i].Antenna_ID = id
                       /\ \A j \in 1..packet.Antenna_num :
                             packet.arms[j].Antenna_ID = id => j <= i
        keys == Sorted(ids)
    IN  [k \in 1..Len(keys) |-> packet.arms[last(keys[k])].LeverArm]

\* the entries of a GNSSAntennaLeverArm packet after its first
ArmEntries ==
    {[Antenna_ID |-> 1, LeverArm |-> <<25, 0, -10>>],
     [Antenna_ID |-> 2, LeverArm |-> <<10, 0, 0>>]}

\* the packets of a set/GNSSAntennaLeverArm message: Antenna_num entries follow
\* the first
LeverArmPackets ==
    {[Antenna_num |-> n, WRT |-> w, arms |-> a] :
        n \in 0..MaxAntennas, w \in {"IMU Center", "Housing Mark"},
        a \in UNION {[1..k -> ArmEntries] : k \in 0..MaxAntennas}}

\* the messages of the web clients
WebMessages ==
    [messageType : {"query"},
     packetType : {"Model", "ProductID", "EngineVersion", "FirmwareVersion",
                   "UserConfiguration", "NTRIPConfiguration", "DeviceStatus"},
     packet : {<<>>}]
    \cup [messageType : {"set"}, packetType : {"IMURotationMatrix"}, packet : MatrixInputs]
    \cup {[messageType |-> "set", packetType |-> "GNSSAntennaLeverArm", packet |-> p] :
             p \in {q \in LeverArmPackets : Len(q.arms) = q.Antenna_num}}
    \cup [messageType : {"set"}, packetType : {"NTRIPConfiguration", "Model"}, packet : {<<>>}]
    \cup [messageType : {"event", "queryResponse"}, packetType : {"UserConfiguration"},
          packet : {<<>>}]

\* lines 49-54: the key of self.cmds a query branch writes (lines 802-817)
FixedQuery(packetType) ==
    CASE packetType = "ProductID" -> "queryProductId"
      [] packetType = "EngineVersion" -> "queryEngineVersion"
      [] packetType = "FirmwareVersion" -> "queryFirmwareVersion"
      [] packetType = "UserConfiguration" -> "queryUserConfiguration"
      [] packetType = "NTRIPConfiguration" -> "queryNTRIPConfiguration"
      [] OTHER -> "none"

\* (mutant) a query is written without a pending command
Registers_SetsOnly(ms, message) ==
    CASE message.messageType = "set"
         /\ message.packetType \in {"IMURotationMatrix", "GNSSAntennaLeverArm"}
         /\ "Msg_060C_topic_0A" \in DOMAIN ms ->
            "set" \o message.packetType
      [] message.messageType = "set" /\ message.packetType = "NTRIPConfiguration" ->
            "setNTRIPConfiguration"
      [] OTHER -> "none"

\* lines 808-811, 813-816, 824-827, 848-851, 865-868: the kind of the pending
\* command the branch of the message appends ("none": it appends nothing)
Registers(ms, message) ==
    CASE message.messageType = "query"
         /\ message.packetType \in {"UserConfiguration", "NTRIPConfiguration"} ->
            "query" \o message.packetType
      [] message.messageType = "set"
         /\ message.packetType \in {"IMURotationMatrix", "GNSSAntennaLeverArm"}
         /\ "Msg_060C_topic_0A" \in DOMAIN ms ->
            "set" \o message.packetType
      [] message.messageType = "set" /\ message.packetType = "NTRIPConfiguration" ->
            "setNTRIPConfiguration"
      [] OTHER -> "none"

\* lines 794-801: the reply to query/Model, appended to all_packets of every
\* web client
ModelReply(clients) ==
    ToWeb(clients, "queryResponse", "Model",
          <<[name |-> "Model", kind |-> "str", v |-> "INS1000"]>>)

\* (mutant) query/Model is answered by the device
DirectWrite_AsksDevice(message) ==
    IF message.messageType = "query" /\ FixedQuery(message.packetType) # "none"
    THEN FixedQuery(message.packetType)
    ELSE IF message.messageType = "query" /\ message.packetType = "Model"
    THEN "queryProductId"
    ELSE IF message.messageType = "set"
            /\ message.packetType \in {"IMURotationMatrix", "GNSSAntennaLeverArm"}
    THEN "queryUserConfiguration"
    ELSE "none"

\* lines 802-807, 836-837, 861-862: the command a branch that appends no
\* pending command writes ("none": it writes nothing)
DirectWrite(message) ==
    IF message.messageType = "query" /\ FixedQuery(message.packetType) # "none"
    THEN FixedQuery(message.packetType)
    ELSE IF message.messageType = "set"
            /\ message.packetType \in {"IMURotationMatrix", "GNSSAntennaLeverArm"}
    THEN "queryUserConfiguration"
    ELSE "none"

WebIdle == hd_op.op # "cmd_registered"

\* handle_cmd_msg, a branch that appends no pending command
CmdDirect ==
    /\ WebIdle
    /\ hd_op.n < MaxWeb
    /\ \E message \in WebMessages :
          /\ Registers(msgs, message) = "none"
          /\ IF DirectWrite(message) # "none"
             THEN write(DirectWrite(message))
             ELSE UNCHANGED <<written, exit_thread>>
          /\ emitted' = IF message.messageType = "query" /\ message.packetType = "Model"
                        THEN ModelReply(web_clients) ELSE <<>>
          /\ hd_op' = [op |-> "cmd", name |-> message, fault |-> "none", n |-> hd_op.n + 1]
    /\ UNCHANGED <<segs, nrecv, cmt_open, data_queue, connection_status, web_clients>>
    /\ UNCHANGED <<pvars, cvars, wvars, uvars, lvars, lockvars>>
    /\ UNCHANGED <<msgs, app, n_reinit, n_on_reinit>>

\* handle_cmd_msg, a branch that appends a pending command: the append
CmdRegister ==
    /\ WebIdle
    /\ hd_op.n < MaxWeb
    /\ \E message \in WebMessages :
          /\ Registers(msgs, message) # "none"
          /\ web_cmds' = Append(web_cmds, [kind |-> Registers(msgs, message), time |-> now])
          /\ cmd_op' = [op |-> "register", kind |-> Registers(msgs, message),
                        res |-> "none", n |-> 0]
          /\ hd_op' = [op |-> "cmd_registered", name |-> message, fault |-> "none",
                       n |-> hd_op.n]
    /\ emitted' = <<>>
    /\ UNCHANGED <<now, expirer_ran>>
    /\ UNCHANGED <<collectvars, uvars, lvars, lockvars>>
    /\ UNCHANGED <<msgs, app, n_reinit, n_on_reinit>>

\* handle_cmd_msg, a branch that appends a pending command: what follows the
\* append.  An exception of a setter, or the missing Msg_NTRIP, leaves
\* handle_cmd_msg before pack_msg_060D and write.
CmdFinish ==
    /\ hd_op.op = "cmd_registered"
    /\ LET message == hd_op.name
       IN  CASE message.messageType = "query" ->
                  /\ write(FixedQuery(message.packetType))
                  /\ hd_op' = [op |-> "cmd", name |-> message, fault |-> "none",
                               n |-> hd_op.n + 1]
                  /\ UNCHANGED uvars
             [] message.messageType = "set" /\ message.packetType = "IMURotationMatrix" ->
                  /\ set_imu_rotation_matrix(message.packet)
                  /\ IF msg_op'.fault = "none"
                     THEN write("msg_060D_cmd")
                     ELSE UNCHANGED <<written, exit_thread>>
                  /\ hd_op' = [op |-> "cmd", name |-> message, fault |-> msg_op'.fault,
                               n |-> hd_op.n + 1]
                  /\ UNCHANGED <<antenna_num, flags_leverarm_from_imu_center,
                                 internal_lever_arm, GNSS_lever_arm_center,
                                 GNSS_lever_arm_housing_mark, n_updates>>
             [] message.messageType = "set" /\ message.packetType = "GNSSAntennaLeverArm" ->
                  /\ IF message.packet.WRT = "IMU Center"
                     THEN set_GNSS_lever_arm_center(LeverArmOf(message.packet))
                     ELSE set_GNSS_lever_arm_housing_mark(LeverArmOf(message.packet))
                  /\ IF msg_op'.fault = "none"
                     THEN write("msg_060D_cmd")
                     ELSE UNCHANGED <<written, exit_thread>>
                  /\ hd_op' = [op |-> "cmd", name |-> message, fault |-> msg_op'.fault,
                               n |-> hd_op.n + 1]
                  /\ UNCHANGED <<antenna_num, flags_leverarm_from_imu_center,
                                 internal_lever_arm, imu_rotation_matrix, n_updates>>
             [] OTHER ->
                  /\ Msg_NTRIP_raises
                  /\ hd_op' = [op |-> "cmd", name |-> message, fault |-> "NameError",
                               n |-> hd_op.n + 1]
                  /\ UNCHANGED <<written, exit_thread>>
                  /\ UNCHANGED uvars
    /\ emitted' = <<>>
    /\ UNCHANGED <<segs, nrecv, cmt_open, data_queue, connection_status, web_clients>>
    /\ UNCHANGED <<pvars, cvars, wvars, lvars, lockvars>>
    /\ UNCHANGED <<msgs, app, n_reinit, n_on_reinit>>

\* the object as msg_typeid_06_handler caches it (lines 329-337): as
\* unpack_msg_060C_topic_0A fills it, updated by the internal lever-arm if
\* one is cached and valid
CachedUserConfiguration ==
    /\ antenna_num \in 0..MaxAntennas
    /\ flags_leverarm_from_imu_center \in BOOLEAN
    /\ \E l \in [1..antenna_num -> DecodedEntries] :
       \E il \in {<<>>} \cup {RawList(i) : i \in InternalInputs} :
          /\ internal_lever_arm = il
          /\ IF flags_leverarm_from_imu_center
             THEN /\ GNSS_lever_arm_center = l
                  /\ GNSS_lever_arm_housing_mark =
                        IF il = <<>> THEN <<>>
                        ELSE AppendAll(<<>>, l, il, -1, 0, antenna_num).list
             ELSE /\ GNSS_lever_arm_housing_mark = l
                  /\ GNSS_lever_arm_center =
                        IF il = <<>> THEN <<>>
                        ELSE AppendAll(<<>>, l, il, 1, 0, antenna_num).list
    /\ imu_rotation_matrix = <<1, 0, 0, 0, 1, 0, 0, 0, 1>>
    /\ n_updates = 0
    /\ msg_op = [op |-> "none", fault |-> "none", shaped |-> TRUE]
    /\ msg_faulted = FALSE

InitWeb ==
    /\ CollectIdle_AnyClients
    /\ WebCmdsInit
    /\ RoverLogAppInit
    /\ app = "none"
    /\ emitted = <<>>
    /\ hd_op = [op |-> "none", name |-> "none", fault |-> "none", n |-> 0]
    /\ n_reinit = 0
    /\ n_on_reinit = 0
    /\ \/ msgs = EmptyCache /\ NoUserConfiguration
       \/ /\ msgs = Put(EmptyCache, "Msg_060C_topic_0A", WellFormed(6, 12, PayloadBytes(10, 1)))
          /\ CachedUserConfiguration

NextWeb == CmdDirect \/ CmdRegister \/ CmdFinish

SpecWeb == InitWeb /\ [][NextWeb]_vars

(***************************************************************************)
(* SpecCollectWeb: one call of start_collection while a web client sends   *)
(* one query that is answered by the device.                               *)
(***************************************************************************)
\* the queries handle_cmd_msg answers by one write and nothing else
\* (lines 802-807)
DeviceQueries == {"ProductID", "EngineVersion", "FirmwareVersion"}

\* handle_cmd_msg called on the thread of a web client while start_collection
\* runs: messageType 'query' and one of DeviceQueries
WebCommand ==
    /\ cmd_op.op = "init"
    /\ main_pc \notin {"open", "returned"}
    /\ \E packetType \in DeviceQueries :
          /\ write(FixedQuery(packetType))
          /\ cmd_op' = [op |-> "write", kind |-> FixedQuery(packetType),
                        res |-> IF written' = written THEN "fault" ELSE "ok", n |-> 0]
    /\ UNCHANGED <<web_cmds, now, expirer_ran>>
    /\ UNCHANGED <<segs, nrecv, cmt_open, data_queue, connection_status, web_clients>>
    /\ UNCHANGED <<pvars, cvars, uvars, lvars, lockvars, kvars>>

NextCollectWeb == MainStep \/ MainInterrupt \/ ReceiverStep \/ ParserStep \/ WebCommand

\* as InitCollect, the device sending one frame of packet type 07 and a
\* stray byte
InitCollectWeb ==
    /\ segs \in { g \in Segments : g.kind = "good" /\ g.shape = <<7, 0, 0, 0>> }
                 \X { g \in Segments : g.kind = "junk" /\ g.n = 1 /\ g.k = 0 }
    /\ nrecv = 0
    /\ data_queue = <<>>
    /\ web_clients = Clients
    /\ DriverInit
    /\ ParserInit
    /\ parser_pc = "idle"
    /\ WebCmdsInit
    /\ NoUserConfiguration
    /\ RoverLogAppInit
    /\ HandlersInit

SpecCollectWeb == InitCollectWeb /\ [][NextCollectWeb]_vars

\* as FairCollect; the web client owes no command
FairCollectWeb ==
    /\ SpecCollectWeb
    /\ WF_vars(MainStep)
    /\ WF_vars(ReceiverStep)
    /\ WF_vars(ParserStep)

(***************************************************************************)
(* SpecIdleWeb: as SpecCollectWeb, with a web client's command handled     *)
(* before start_collection has started the threads.                        *)
(***************************************************************************)
\* handle_cmd_msg called on the thread of a web client after reinit and
\* before start_collection has opened the transport: messageType 'query' and
\* one of DeviceQueries (lines 802-807)
WebCommandIdle ==
    /\ cmd_op.op = "init"
    /\ main_pc = "open"
    /\ \E packetType \in DeviceQueries :
          /\ write(FixedQuery(packetType))
          /\ cmd_op' = [op |-> "write", kind |-> FixedQuery(packetType),
                        res |-> IF written' = written THEN "fault" ELSE "ok", n |-> 0]
    /\ UNCHANGED <<web_cmds, now, expirer_ran>>
    /\ UNCHANGED <<segs, nrecv, cmt_open, data_queue, connection_status, web_clients>>
    /\ UNCHANGED <<pvars, cvars, uvars, lvars, lockvars, kvars>>

NextIdleWeb == MainStep \/ MainInterrupt \/ ReceiverStep \/ ParserStep \/ WebCommandIdle

SpecIdleWeb == InitCollectWeb /\ [][NextIdleWeb]_vars

(***************************************************************************)
(* SpecFaults: as SpecCollect, the device sending a frame of a valid       *)
(* checksum whose payload is not what its handler reads: a GH frame of one *)
(* byte for the two of the catalogue, a System Response of two bytes.      *)
(***************************************************************************)
FaultSegments ==
    { [kind |-> "good", shape |-> sh, k |-> 0, n |-> 0] :
         sh \in {<<5, 1, 3, 1>>, <<6, 6, 6, 2>>, <<7, 0, 0, 0>>} }

InitFaults ==
    /\ segs \in FaultSegments \X { g \in Segments : g.kind = "junk" /\ g.n = 1 /\ g.k = 0 }
    /\ nrecv = 0
    /\ data_queue = <<>>
    /\ web_clients = Clients
    /\ DriverInit
    /\ ParserInit
    /\ parser_pc = "idle"
    /\ WebCmdsInit
    /\ NoUserConfiguration
    /\ RoverLogAppInit
    /\ HandlersInit

SpecFaults == InitFaults /\ [][NextCollect]_vars

(***************************************************************************)
(* SpecOrder: the receiver and the parser at work during a collection.     *)
(* The device sends two frames whose bytes go through the queue; between   *)
(* frames the parser also completes frames of the catalogued KFN and CNM   *)
(* packets, of which only the decoded packet is modelled.                  *)
(***************************************************************************)
\* parse_frame, lines 298-304, called by the parser for a KFN or CNM frame
\* whose handling raises nothing
ParserDispatchDecoded ==
    /\ parser_pc = "take"
    /\ ~find_header
    /\ HandlePacket
    /\ hd_op'.name \in {"KFN", "CNM"}
    /\ hd_op'.fault = "none"

\* start_collection has started the threads and sleeps in its wait loop
\* (lines 213-232)
InitOrder ==
    /\ segs \in { g \in Segments : g.kind = "good" /\ g.shape = <<5, 1, 3, 2>> }
                 \X { g \in Segments : g.kind = "good"
                                        /\ g.shape \in {<<5, 1, 3, 2>>, <<7, 0, 0, 0>>} }
    /\ nrecv = 0
    /\ data_queue = <<>>
    /\ web_clients = Clients
    /\ exit_thread = FALSE
    /\ connection_status = 1
    /\ cmt_open = TRUE
    /\ written = StartupQueries
    /\ receiver_pc = "run"
    /\ main_pc = "sleep"
    /\ result = "none"
    /\ ds_log = <<[returnStatus |-> 0, to |-> Clients]>>
    /\ read_fault = FALSE
    /\ interrupted = FALSE
    /\ ParserInit
    /\ parser_pc = "run"
    /\ WebCmdsInit
    /\ NoUserConfiguration
    /\ RoverLogAppInit
    /\ msgs = EmptyCache
    /\ app = "app"
    /\ emitted = <<>>
    /\ hd_op = [op |-> "none", name |-> "none", fault |-> "none", n |-> 0]
    /\ n_reinit = 0
    /\ n_on_reinit = 0

NextOrder == ReceiverStep \/ ParserStep \/ ParserDispatchDecoded

SpecOrder == InitOrder /\ [][NextOrder]_vars

(***************************************************************************)
(* SpecFrames: parse_frame called with complete frames of a valid          *)
(* checksum, and its dispatch called with decoded packets.                 *)
(***************************************************************************)
\* the frames handed to parse_frame
ParsedFrames ==
    { WellFormed(5, 1, <<3, 1>>),                       \* GH
      WellFormed(5, 1, <<3>>),                          \* GH, a byte short
      WellFormed(5, 1, <<3, 1, 9>>),                    \* GH, a byte long
      WellFormed(5, 3, <<65, 66>>),                     \* EngineVersion 'AB'
      WellFormed(5, 4, <<1, 1, 0>>),                    \* SSS, N_SV = 0
      WellFormed(5, 4, <<1, 1, 1, 7, 0, 0, 0, 0>>),     \* SSS, N_SV = 1
      WellFormed(5, 4, <<1, 1, 2, 7, 0, 0, 0, 0, 8, 0, 0, 0, 0>>),   \* SSS, N_SV = 2
      WellFormed(5, 4, <<1, 1, 2, 7, 0, 0, 0, 0>>),     \* SSS, N_SV = 2, one group
      WellFormed(5, 9, <<1>>),                          \* AF 20 05 09: not catalogued
      WellFormed(7, 0, <<>>),                           \* AF 20 07 00: not catalogued
      WellFormed(6, 12, <<12, 65>>),                    \* firmware version
      WellFormed(6, 10, <<4>>) }                        \* NTRIP set acknowledged

\* parser, line 163: parse_frame(frame)
ParseFrame ==
    /\ ParserAlive
    /\ hd_op.n < MaxHandled
    /\ \E fr \in ParsedFrames :
          LET done == parse_frame(msgs, web_cmds, web_clients, app, fr)
          IN  /\ msgs' = done.msgs
              /\ web_cmds' = done.web_cmds
              /\ emitted' = done.out
              /\ hd_op' = [op |-> "parse", name |-> fr, fault |-> done.fault,
                           n |-> hd_op.n + 1]
    /\ UNCHANGED <<app, n_reinit, n_on_reinit>>
    /\ UNCHANGED <<collectvars, now, expirer_ran, cmd_op, uvars, lvars, lockvars>>

NextFrames == ParseFrame \/ HandlePacket

SpecFrames == InitHandlers /\ [][NextFrames]_vars

(***************************************************************************)
(* SpecVarLen: unpack_output_packet_var_len called with catalogue entries  *)
(* of every shape (the fixed fields first, the repetition count the last   *)
(* of them, then the repeating fields; every field a uint8) and payloads   *)
(* of the length the entry and the count ask for.                          *)
(***************************************************************************)
MaxFixed == 3       \* fixed fields of an entry
MaxRepeat == 3      \* repeating fields of an entry
MaxCount == 3       \* repetitions in a payload

FixedNames == <<"c1", "c2", "c3", "c4">>
RepeatNames == <<"v1", "v2", "v3", "v4">>

\* the entry with f fixed fields and r repeating fields
VarLenEntry(f, r) ==
    [header |-> <<175, 32, 5, 4>>, name |-> "SSS",
     var_num |-> [type |-> "uint8", idx |-> f - 1, field_idx |-> f],
     payload |-> [i \in 1..(f + r) |->
                     [name |-> IF i <= f THEN FixedNames[i] ELSE RepeatNames[i - f],
                      type |-> "uint8"]]]

\* a payload of the entry: the fixed fields, the count c the last of them,
\* and c groups of r bytes numbered from b in wire order
VarLenPayload(f, r, c, b) ==
    [i \in 1..(f + r * c) |-> IF i < f THEN 0 ELSE IF i = f THEN c ELSE b + (i - f)]

VarLenInputs ==
    { [entry |-> VarLenEntry(f, r), payload |-> VarLenPayload(f, r, c, b)] :
         f \in 1..MaxFixed, r \in 1..MaxRepeat, c \in 0..MaxCount, b \in {10, 20} }

\* parse_frame, line 293: data = self.unpack_output_packet_var_len(...); the
\* value returned is kept in emitted
VarLenDecode ==
    /\ ParserAlive
    /\ hd_op.n < MaxHandled
    /\ \E x \in VarLenInputs :
          LET raises == unpack_output_packet_var_len_raises(x.entry, x.payload)
          IN  /\ emitted' = IF raises THEN <<>>
                            ELSE unpack_output_packet_var_len(x.entry,
                                     VarLenPayloadData(x.entry, x.payload),
                                     VarNumOf(x.entry, x.payload))
              /\ hd_op' = [op |-> "var_len", name |-> x,
                           fault |-> IF raises THEN "IndexError" ELSE "none",
                           n |-> hd_op.n + 1]
    /\ UNCHANGED <<msgs, web_cmds, app, n_reinit, n_on_reinit>>
    /\ UNCHANGED <<collectvars, now, expirer_ran, cmd_op, uvars, lvars, lockvars>>

NextVarLen == VarLenDecode

SpecVarLen == InitHandlers /\ [][NextVarLen]_vars

(***************************************************************************)
(* SpecScale: parse_frame decoding fixed-shape packets of catalogue        *)
(* entries whose fields have a Scaling.  eval(Scaling) yields a number     *)
(* ("2") or raises ("1/0").                                                *)
(***************************************************************************)
MaxScaled == 3      \* fields of an entry

ScaledNames == <<"Latitude", "Longitude", "Height", "Heading">>

\* one field of an entry: no 'Scaling' key, or one of the two expressions
ScaledField(i, scaling) ==
    IF scaling = "absent" THEN [name |-> ScaledNames[i], type |-> "uint8"]
    ELSE [name |-> ScaledNames[i], type |-> "uint8", Scaling |-> scaling]

ScaledEntries ==
    { [header |-> <<175, 32, 5, 1>>, name |-> "INS",
       payload |-> [i \in 1..n |-> ScaledField(i, k[i])]] :
         n \in 1..MaxScaled, k \in [1..MaxScaled -> {"absent", "2", "1/0"}] }

\* eval(Scaling) raises
EvalRaises(scaling) == scaling = "1/0"

\* eval(Scaling)
Eval(scaling) == IF scaling = "2" THEN 2 ELSE 1

\* change_scale, lines 622-633, from the field i on: a field without a
\* Scaling is passed over, the value of a field with one is multiplied, and
\* the first exception ends the loop (return False)
RECURSIVE change_scale_from(_, _, _)
change_scale_from(fields, data, i) ==
    IF i > Len(fields) THEN data
    ELSE IF "Scaling" \notin DOMAIN fields[i]
    THEN change_scale_from(fields, data, i + 1)
    ELSE IF EvalRaises(fields[i].Scaling) THEN data
    ELSE change_scale_from(fields,
             [j \in 1..Len(data) |->
                 IF data[j].name = fields[i].name
                 THEN [data[j] EXCEPT !.v = data[j].v * Eval(fields[i].Scaling)]
                 ELSE data[j]],
             i + 1)

\* change_scale, lines 616-633: data as the call leaves it
change_scale(output_message, data) == change_scale_from(output_message.payload, data, 1)

\* parse_frame, lines 295-304, for an entry of fixed shape: decode, rescale,
\* hand on
DecodeScaled ==
    /\ ParserAlive
    /\ hd_op.n < MaxHandled
    /\ \E e \in ScaledEntries, b \in {1, 5} :
          LET payload == [i \in 1..Len(e.payload) |-> b + i]
              data == change_scale(e, unpack_output_packet(e, payload))
              done == dispatch_packet(msgs, web_clients, app, e.name, data, FALSE)
          IN  /\ msgs' = done.msgs
              /\ emitted' = done.out
              /\ hd_op' = [op |-> "scale", name |-> [entry |-> e, payload |-> payload],
                           fault |-> done.fault, n |-> hd_op.n + 1]
    /\ UNCHANGED <<web_cmds, app, n_reinit, n_on_reinit>>
    /\ UNCHANGED <<collectvars, now, expirer_ran, cmd_op, uvars, lvars, lockvars>>

NextScale == DecodeScaled

SpecScale == InitHandlers /\ [][NextScale]_vars

(***************************************************************************)
(* SpecPack: the Msg_060C_topic_0A object of SpecUserCfg, its setters, and *)
(* the encoding of the 06 0D command that handle_cmd_msg writes.  The      *)
(* fields of the object the model does not carry (ICD_num, min_vel,        *)
(* max_unaided_time, max_output_rate, output_position_offset, the extended *)
(* version flag, the DMI block) have the values __init__ gives them.       *)
(***************************************************************************)
MaxPacked == 2      \* commands packed and written

\* struct.pack('<i', v): four bytes, little-endian, two's complement
Int32LE(v) ==
    LET b0 == v % 256
        v1 == (v - b0) \div 256
        b1 == v1 % 256
        v2 == (v1 - b1) \div 256
        b2 == v2 % 256
        v3 == (v2 - b2) \div 256
    IN  <<b0, b1, b2, v3 % 256>>

\* struct.pack('<d', x) for the matrix elements 0 and 1
DoubleLE(x) == IF x = 1 THEN <<0, 0, 0, 0, 0, 0, 240, 63>> ELSE <<0, 0, 0, 0, 0, 0, 0, 0>>

\* v += lever_arm, for every lever arm of the list
RECURSIVE Flatten(_)
Flatten(lists) == IF lists = <<>> THEN <<>> ELSE Head(lists) \o Flatten(Tail(lists))

RECURSIVE PackEach(_, _)
PackEach(values, kind) ==
    IF values = <<>> THEN <<>>
    ELSE (IF kind = "d" THEN DoubleLE(Head(values)) ELSE Int32LE(Head(values)))
            \o PackEach(Tail(values), kind)

\* pack_msg_060D, lines 195-204: the lever arms written, those relative to
\* what flags_leverarm_from_imu_center says
PackedLeverArms ==
    Flatten(IF flags_leverarm_from_imu_center
            THEN GNSS_lever_arm_center ELSE GNSS_lever_arm_housing_mark)

\* pack_msg_060D: struct.pack raises when the number of values is not the
\* number its format asks for (lines 186, 203)
pack_msg_060D_raises ==
    \/ Len(imu_rotation_matrix) # 9
    \/ Len(PackedLeverArms) # antenna_num * 3

\* pack_msg_060D, lines 170-204: the payload (topic, indicators, flags,
\* ICD_num, min_vel, max_unaided_time, max_output_rate, the matrix,
\* output_position_offset, the lever arms)
msg_060D_payload ==
    <<10, antenna_num, IF flags_leverarm_from_imu_center THEN 0 ELSE 4, 0, 0>>
       \o <<0, 0>> \o <<0, 0>>
       \o PackEach(imu_rotation_matrix, "d")
       \o PackEach(<<0, 0, 0>>, "i")
       \o PackEach(PackedLeverArms, "i")

\* pack_msg_060D, lines 240-241: append(result[1]), append(result[0])
Trailer(cks) == <<cks[2], cks[1]>>

\* pack_msg_060D, lines 168-169, 233-241: header, length, payload, trailer
pack_msg_060D ==
    <<175, 32, 6, 13>> \o LE16(Len(msg_060D_payload)) \o msg_060D_payload
       \o Trailer(check_sum(msg_060D_payload))

\* handle_cmd_msg, lines 830-831 and 859-860: pack_msg_060D and
\* write(msg_060D_cmd); an exception of struct.pack leaves handle_cmd_msg
PackAndWrite ==
    /\ Len(written) < MaxPacked
    /\ ~exit_thread
    /\ IF pack_msg_060D_raises
       THEN /\ msg_op' = [op |-> "pack", fault |-> "struct.error", shaped |-> TRUE]
            /\ msg_op # msg_op'
            /\ UNCHANGED <<written, exit_thread>>
       ELSE /\ msg_op' = [op |-> "pack", fault |-> "none", shaped |-> TRUE]
            /\ write(pack_msg_060D)
    /\ UNCHANGED <<antenna_num, flags_leverarm_from_imu_center, internal_lever_arm,
                   GNSS_lever_arm_center, GNSS_lever_arm_housing_mark,
                   imu_rotation_matrix, n_updates, msg_faulted>>
    /\ UNCHANGED <<segs, nrecv, cmt_open, data_queue, connection_status, web_clients>>
    /\ UNCHANGED <<pvars, cvars, wvars, lvars, lockvars, kvars>>

NextPack == SetCenter \/ SetImuRotationMatrix \/ PackAndWrite

SpecPack == InitUserCfg /\ [][NextPack]_vars

(***************************************************************************)
(* SpecRace: the cached Msg_060C_topic_0A object used by two threads with  *)
(* no lock: the web thread in handle_cmd_msg (a lever-arm setter, then     *)
(* pack_msg_060D and write) and the parser thread in                       *)
(* update_GNSS_lever_arm_by_internal_lever_arm (msg_typeid_06_handler,     *)
(* lines 362-365).  A step is an assignment or one append of a loop.       *)
(* cmd_op holds the place of the web thread (op, the setter in kind, its   *)
(* argument in res, the antennas done in n), hd_op the place of the parser *)
(* thread (op "update", the antennas done in n).                           *)
(***************************************************************************)
\* the arguments of the setters that pass the check of lines 275 and 296
ShapedInputs ==
    {l \in LeverArmInputs : Len(l) = MaxAntennas /\ \A an \in 1..Len(l) : Len(l[an]) = 3}

\* the object after unpack_msg_060C_topic_0A and the
\* update_GNSS_lever_arm_by_internal_lever_arm of lines 331-336
InitRace ==
    /\ antenna_num = MaxAntennas
    /\ flags_leverarm_from_imu_center \in BOOLEAN
    /\ \E internal \in InternalInputs, l \in [1..antenna_num -> DecodedEntries] :
          /\ internal_lever_arm = RawList(internal)
          /\ IF flags_leverarm_from_imu_center
             THEN /\ GNSS_lever_arm_center = l
                  /\ GNSS_lever_arm_housing_mark =
                        AppendAll(<<>>, l, RawList(internal), -1, 0, antenna_num).list
             ELSE /\ GNSS_lever_arm_housing_mark = l
                  /\ GNSS_lever_arm_center =
                        AppendAll(<<>>, l, RawList(internal), 1, 0, antenna_num).list
    /\ imu_rotation_matrix = <<1, 0, 0, 0, 1, 0, 0, 0, 1>>
    /\ n_updates = 0
    /\ msg_op = [op |-> "none", fault |-> "none", shaped |-> TRUE]
    /\ msg_faulted = FALSE
    /\ CollectIdle
    /\ WebCmdsInit
    /\ RoverLogAppInit
    /\ HandlersInit

\* handle_cmd_msg, lines 855-858, in the setter: lines 278-284 (299-305) store
\* the list of the argument and empty the other list
RaceSetBegin ==
    /\ cmd_op.op \in {"init", "written"}
    /\ Len(written) < MaxPacked
    /\ ~exit_thread
    /\ \E kind \in {"set_center", "set_housing_mark"}, lever_arm \in ShapedInputs :
          /\ cmd_op' = [op |-> "append", kind |-> kind, res |-> lever_arm, n |-> 0]
          /\ IF kind = "set_center"
             THEN /\ GNSS_lever_arm_center' = RawLeverArm(lever_arm)
                  /\ GNSS_lever_arm_housing_mark' = <<>>
             ELSE /\ GNSS_lever_arm_housing_mark' = RawLeverArm(lever_arm)
                  /\ GNSS_lever_arm_center' = <<>>
    /\ UNCHANGED <<antenna_num, flags_leverarm_from_imu_center, internal_lever_arm,
                   imu_rotation_matrix, n_updates, msg_op, msg_faulted>>
    /\ UNCHANGED <<collectvars, web_cmds, now, expirer_ran, lvars, lockvars, kvars>>

\* the setter, lines 285-286 (306-307): one append of the loop, with the
\* internal lever arm as it is now
RaceSetAppend ==
    /\ cmd_op.op = "append"
    /\ cmd_op.n < antenna_num
    /\ LET own == IF cmd_op.kind = "set_center" THEN GNSS_lever_arm_center
                  ELSE GNSS_lever_arm_housing_mark
           other == IF cmd_op.kind = "set_center" THEN GNSS_lever_arm_housing_mark
                    ELSE GNSS_lever_arm_center
           r == AppendAll(other, own, internal_lever_arm,
                          IF cmd_op.kind = "set_center" THEN -1 ELSE 1,
                          cmd_op.n, cmd_op.n + 1)
       IN  /\ IF cmd_op.kind = "set_center"
              THEN GNSS_lever_arm_housing_mark' = r.list /\ UNCHANGED GNSS_lever_arm_center
              ELSE GNSS_lever_arm_center' = r.list /\ UNCHANGED GNSS_lever_arm_housing_mark
           /\ cmd_op' = [cmd_op EXCEPT !.n = @ + 1,
                                       !.op = IF r.fault = "none" THEN @ ELSE "raised"]
    /\ UNCHANGED <<antenna_num, flags_leverarm_from_imu_center, internal_lever_arm,
                   imu_rotation_matrix, n_updates, msg_op, msg_faulted>>
    /\ UNCHANGED <<collectvars, web_cmds, now, expirer_ran, lvars, lockvars, kvars>>

\* handle_cmd_msg, lines 859-860: pack_msg_060D and write(msg_060D_cmd)
RacePackAndWrite ==
    /\ cmd_op.op = "append"
    /\ cmd_op.n = antenna_num
    /\ IF pack_msg_060D_raises
       THEN /\ cmd_op' = [cmd_op EXCEPT !.op = "raised"]
            /\ UNCHANGED <<written, exit_thread>>
       ELSE /\ write(pack_msg_060D)
            /\ cmd_op' = [cmd_op EXCEPT !.op = IF exit_thread' THEN "fault" ELSE "written"]
    /\ UNCHANGED uvars
    /\ UNCHANGED <<segs, nrecv, cmt_open, data_queue, connection_status, web_clients>>
    /\ UNCHANGED <<pvars, cvars, web_cmds, now, expirer_ran, lvars, lockvars, kvars>>

\* msg_typeid_06_handler, lines 362-365, in
\* update_GNSS_lever_arm_by_internal_lever_arm: line 309 stores the internal
\* lever arm
RaceUpdateBegin ==
    /\ hd_op.op = "none"
    /\ n_updates < MaxUpdates
    /\ ~exit_thread
    /\ n_updates' = n_updates + 1
    /\ \E internal \in InternalInputs : internal_lever_arm' = RawList(internal)
    /\ hd_op' = [op |-> "update", name |-> "Internal Lever-arm", fault |-> "none", n |-> 0]
    /\ UNCHANGED <<antenna_num, flags_leverarm_from_imu_center, GNSS_lever_arm_center,
                   GNSS_lever_arm_housing_mark, imu_rotation_matrix, msg_op, msg_faulted>>
    /\ UNCHANGED <<collectvars, wvars, lvars, lockvars, msgs, app, emitted, n_reinit, n_on_reinit>>

\* update_GNSS_lever_arm_by_internal_lever_arm, lines 311-316: one append of
\* the loop, or its end; an IndexError ends the parser thread
RaceUpdateAppend ==
    /\ hd_op.op = "update"
    /\ IF hd_op.n >= antenna_num
       THEN /\ hd_op' = [hd_op EXCEPT !.op = "none"]
            /\ UNCHANGED <<GNSS_lever_arm_center, GNSS_lever_arm_housing_mark>>
       ELSE LET r == IF flags_leverarm_from_imu_center
                     THEN AppendAll(GNSS_lever_arm_housing_mark, GNSS_lever_arm_center,
                                    internal_lever_arm, -1, hd_op.n, hd_op.n + 1)
                     ELSE AppendAll(GNSS_lever_arm_center, GNSS_lever_arm_housing_mark,
                                    internal_lever_arm, 1, hd_op.n, hd_op.n + 1)
            IN  /\ IF flags_leverarm_from_imu_center
                   THEN /\ GNSS_lever_arm_housing_mark' = r.list
                        /\ UNCHANGED GNSS_lever_arm_center
                   ELSE /\ GNSS_lever_arm_center' = r.list
                        /\ UNCHANGED GNSS_lever_arm_housing_mark
                /\ hd_op' = [hd_op EXCEPT !.n = @ + 1, !.fault = r.fault,
                                          !.op = IF r.fault = "none" THEN @ ELSE "dead"]
    /\ UNCHANGED <<antenna_num, flags_leverarm_from_imu_center, internal_lever_arm,
                   imu_rotation_matrix, n_updates, msg_op, msg_faulted>>
    /\ UNCHANGED <<collectvars, wvars, lvars, lockvars, msgs, app, emitted, n_reinit, n_on_reinit>>

NextRace ==
    RaceSetBegin \/ RaceSetAppend \/ RacePackAndWrite \/ RaceUpdateBegin \/ RaceUpdateAppend

SpecRace == InitRace /\ [][NextRace]_vars

(***************************************************************************)
(* SpecLocks: web_clients and its lock.  The web thread registers and      *)
(* removes clients, the parser thread hands decoded packets to             *)
(* packet_handler, which pushes them to the registered clients under the   *)
(* lock.  A call that acquires the lock and returns is one step; acquire   *)
(* blocks while the lock is not free.  A client's on_driver_message        *)
(* returns or raises.                                                      *)
(***************************************************************************)
\* add_client, lines 81-84
AddClient ==
    /\ web_clients_lock = "free"
    /\ \E c \in Clients :
          /\ web_clients' = web_clients \cup {c}
          /\ cmd_op' = [op |-> "add_client", kind |-> c, res |-> "ok", n |-> 0]
    /\ UNCHANGED <<devvars, exit_thread, data_queue, connection_status, pvars, cvars>>
    /\ UNCHANGED <<web_cmds, now, expirer_ran, uvars, lvars, kvars, lockvars>>

\* remove_client, lines 86-89: list.remove raises ValueError for a client
\* that is not in the list, and the call is left at line 88
RemoveClient ==
    /\ web_clients_lock = "free"
    /\ \E c \in Clients :
          IF c \in web_clients
          THEN /\ web_clients' = web_clients \ {c}
               /\ web_clients_lock' = "free"
               /\ cmd_op' = [op |-> "remove_client", kind |-> c, res |-> "ok", n |-> 0]
          ELSE /\ web_clients' = web_clients
               /\ web_clients_lock' = "web"
               /\ cmd_op' = [op |-> "remove_client", kind |-> c, res |-> "ValueError", n |-> 0]
    /\ UNCHANGED <<devvars, exit_thread, data_queue, connection_status, pvars, cvars>>
    /\ UNCHANGED <<web_cmds, now, expirer_ran, uvars, lvars, kvars>>

\* parse_frame, lines 298-304, for a decoded packet: packet_handler pushes it
\* under the lock (lines 674-679); when a client's on_driver_message raises,
\* the exception leaves packet_handler at line 678 and ends the parser thread
PushPacket ==
    /\ ParserAlive
    /\ hd_op.n < MaxHandled
    /\ web_clients_lock = "free"
    /\ \E p \in HandledPackets, raises \in BOOLEAN :
          LET done == dispatch_packet(msgs, web_clients, app, p.name, p.data, FALSE)
              cached == IF p.name \in CachedNames THEN Put(msgs, p.name, p.data) ELSE msgs
          IN  IF raises /\ web_clients # {}
              THEN /\ msgs' = cached
                   /\ emitted' = ToApp(app, p.name, p.data)
                   /\ hd_op' = [op |-> "packet", name |-> p.name, fault |-> "callback",
                                n |-> hd_op.n + 1]
                   /\ web_clients_lock' = "parser"
              ELSE /\ ~raises
                   /\ msgs' = done.msgs
                   /\ emitted' = done.out
                   /\ hd_op' = [op |-> "packet", name |-> p.name, fault |-> done.fault,
                                n |-> hd_op.n + 1]
                   /\ web_clients_lock' = "free"
    /\ UNCHANGED <<app, n_reinit, n_on_reinit>>
    /\ UNCHANGED <<collectvars, wvars, uvars, lvars>>

NextLocks == AddClient \/ RemoveClient \/ PushPacket

SpecLocks == InitHandlers /\ [][NextLocks]_vars

(***************************************************************************)
(* Claims about frame assembly (SpecParser)                                *)
(***************************************************************************)
\* Len(SegBytes(g))
SegLen(g) ==
    CASE g.kind \in {"good", "badck"} -> 8 + g.shape[4]
      [] g.kind = "declared" -> 6 + g.n
      [] OTHER -> g.n

SegStart(i) == IF i = 1 THEN 0 ELSE SegLen(segs[1])
SegEnd(i) == IF i = 1 THEN SegLen(segs[1]) ELSE SegLen(segs[1]) + SegLen(segs[2])

\* a well-formed frame whose total length 8 + L is within the 500-byte bound
WithinLimit(g) == g.kind = "good" /\ 8 + g.shape[4] <= MAX_FRAME_LIMIT

\* the calls of parse_frame made while the bytes of segment i were taken
DispatchesIn(i) ==
    {j \in 1..Len(dispatched) :
        dispatched[j].at > SegStart(i) /\ dispatched[j].at <= SegEnd(i)}

\* once segment i is taken: one call, at its last byte, with exactly its bytes
DispatchedOnce(i) ==
    nparsed >= SegEnd(i) =>
        /\ Cardinality(DispatchesIn(i)) = 1
        /\ \A j \in DispatchesIn(i) :
              dispatched[j] = [at |-> SegEnd(i), frame |-> SegBytes(segs[i])]

NotDispatched(i) == DispatchesIn(i) = {}

\* between two segments the parser thread runs and searches a header
HeaderSearchAt(n) == nparsed = n => (parser_pc \in {"run", "take"} /\ ~find_header)

\* C1: a well-formed frame of at most 500 bytes, met in header search, is handed
\* to parse_frame exactly once with exactly its bytes, after which the parser is
\* back in header search and handles a following well-formed frame the same way.
C1_FrameDispatchedThenNext ==
    (WithinLimit(segs[1]) /\ WithinLimit(segs[2])) =>
        /\ parser_pc \in {"run", "take"}
        /\ DispatchedOnce(1)
        /\ HeaderSearchAt(SegEnd(1))
        /\ DispatchedOnce(2)
        /\ HeaderSearchAt(SegEnd(2))

\* C2: a completed frame whose trailer differs from the checksum of its payload
\* is never handed to parse_frame, the parser is back in header search after it,
\* and a well-formed frame right after it is handed to parse_frame exactly once.
C2_BadChecksumDiscarded ==
    /\ \A i \in 1..2 : segs[i].kind = "badck" => NotDispatched(i)
    /\ segs[1].kind = "badck" =>
          /\ HeaderSearchAt(SegEnd(1))
          /\ WithinLimit(segs[2]) => DispatchedOnce(2)

C2_Witness ==
    /\ segs[1].kind = "badck"
    /\ WithinLimit(segs[2])
    /\ nparsed = SegEnd(2)
    /\ Len(dispatched) = 1

\* a frame the limit makes the parser give up: a declared payload length of 501,
\* or a frame that grows past 500 bytes before it is complete
GivenUpAt(g) ==
    IF g.kind = "declared" /\ g.shape[4] > MAX_FRAME_LIMIT THEN PAYLOAD_LEN_IDX + 2
    ELSE IF g.kind = "good" /\ 8 + g.shape[4] > MAX_FRAME_LIMIT + 1 THEN MAX_FRAME_LIMIT + 1
    ELSE 0

\* C3: such a frame is given up without a call of parse_frame, the parser is in
\* header search from then on, and a well-formed frame later in the stream is
\* found and handed to parse_frame.
C3_OversizeAbandoned ==
    GivenUpAt(segs[1]) > 0 =>
        /\ NotDispatched(1)
        /\ \A n \in GivenUpAt(segs[1])..SegEnd(1) : HeaderSearchAt(n)
        /\ WithinLimit(segs[2]) => DispatchedOnce(2)

C3_Witness ==
    /\ segs[1].kind = "declared"
    /\ WithinLimit(segs[2])
    /\ nparsed = SegEnd(2)
    /\ Len(dispatched) = 1
    /\ dispatched[1].frame = SegBytes(segs[2])

(***************************************************************************)
(* Claims about a read fault during collection (SpecCollect, FairCollect)  *)
(***************************************************************************)
\* the DeviceStatus(returnStatus = st) pushes made so far
PushesOf(st) == {j \in 1..Len(ds_log) : ds_log[j].returnStatus = st}

\* start_collection has reported the disconnection: both threads have ended,
\* the status is 0, one DeviceStatus(1) went to every registered client, the
\* transport is closed and the result is 'keep retrying'
Disconnected ==
    /\ Terminated(receiver_pc)
    /\ Terminated(parser_pc)
    /\ connection_status = 0
    /\ Cardinality(PushesOf(1)) = 1
    /\ \A j \in PushesOf(1) : ds_log[j].to = web_clients
    /\ ~cmt_open
    /\ result = "retry"

\* C4 as stated: whenever a read has failed during collection, start_collection
\* ends by reporting the disconnection.
C4_ReadFaultAlwaysDisconnects ==
    (read_fault /\ main_pc = "returned") => Disconnected

\* C4, amended: after a read fault both threads end and start_collection
\* returns; unless the operator's interrupt was taken in the wait loop, it has
\* then set the status from 1 to 0, pushed DeviceStatus(1) once to every
\* registered client, closed the transport and returned 'keep retrying'.
C4_ReadFaultDisconnects ==
    /\ [](main_pc \in {"join", "status0"} => connection_status = 1)
    /\ []((read_fault /\ main_pc = "returned" /\ ~interrupted) => Disconnected)
    /\ []((main_pc = "returned" /\ interrupted) =>
             (result = "stop" /\ connection_status = 1 /\ PushesOf(1) = {}))
    /\ (read_fault ~>
          (main_pc = "returned" /\ Terminated(receiver_pc) /\ Terminated(parser_pc)))

C4_Witness ==
    /\ read_fault
    /\ ~interrupted
    /\ web_clients = Clients
    /\ Disconnected
    /\ main_pc = "returned"
    /\ dispatched # <<>>


(***************************************************************************)
(* Claims about the pending web commands (SpecCmds)                        *)
(***************************************************************************)
\* the entry's kind is one a lookup for kind takes
KindMatches(kind, key) ==
    IF kind = "setUserConfiguration"
    THEN key \in {"setIMURotationMatrix", "setGNSSAntennaLeverArm"}
    ELSE key = kind

MatchesOf(cmds, kind) == {i \in 1..Len(cmds) : KindMatches(kind, cmds[i].kind)}

\* the entries not older than 5 s at time t, in their order
NotOlderThanTimeout(cmds, t) ==
    LET Younger(c) == t - c.time <= TIME_OUT * TicksPerSecond
    IN  SelectSeq(cmds, Younger)

\* C5: a pending command is gone 6 s after it was registered, so a lookup that
\* finds a match finds an entry younger than 6 s; a lookup made while an entry
\* of its kind is at most 1 s old returns a match and removes one entry; and a
\* pass of the expirer leaves exactly the entries not older than 5 s, whatever
\* their kind, in their original order.
C5_PendingCommandExpiry ==
    /\ [](\A i \in 1..Len(web_cmds) : now - web_cmds[i].time < 6 * TicksPerSecond)
    /\ [][(cmd_op'.op = "get" /\ cmd_op'.res # "none")
            => \E i \in MatchesOf(web_cmds, cmd_op'.kind) :
                  now - web_cmds[i].time < 6 * TicksPerSecond]_vars
    /\ [][(/\ cmd_op'.op = "get"
           /\ \E i \in MatchesOf(web_cmds, cmd_op'.kind) :
                 now - web_cmds[i].time <= 1 * TicksPerSecond)
            => /\ cmd_op'.res # "none"
               /\ Len(web_cmds') = Len(web_cmds) - 1]_vars
    /\ [][cmd_op'.op = "expire" => web_cmds' = NotOlderThanTimeout(web_cmds, now)]_vars

\* a pass of the expirer has removed one entry and left a younger one
C5_Witness ==
    /\ cmd_op.op = "expire"
    /\ cmd_op.n = 1
    /\ Len(web_cmds) = 1
    /\ now - web_cmds[1].time \in 1..(TIME_OUT * TicksPerSecond)

\* C6: get_web_cmds takes the first entry, in insertion order, that the kind
\* matches (for setUserConfiguration the first setIMURotationMatrix or
\* setGNSSAntennaLeverArm entry, returned as IMURotationMatrix or
\* GNSSAntennaLeverArm; otherwise the first entry of exactly that kind),
\* removes that entry alone and keeps the order of the others; with no match
\* it returns nothing and leaves the list unchanged; and once the only match
\* is consumed the same lookup finds nothing.
C6_LookupFirstMatch ==
    [][cmd_op'.op = "get" =>
        LET kind == cmd_op'.kind
            M == MatchesOf(web_cmds, kind)
        IN  IF M = {}
            THEN cmd_op'.res = "none" /\ web_cmds' = web_cmds
            ELSE LET m == CHOOSE i \in M : \A j \in M : i <= j
                     key == web_cmds[m].kind
                 IN  /\ cmd_op'.res = (CASE key = "setIMURotationMatrix" -> "IMURotationMatrix"
                                         [] key = "setGNSSAntennaLeverArm" -> "GNSSAntennaLeverArm"
                                         [] OTHER -> kind)
                     /\ web_cmds' = SubSeq(web_cmds, 1, m - 1)
                                       \o SubSeq(web_cmds, m + 1, Len(web_cmds))
                     /\ Cardinality(M) = 1
                           => get_web_cmds(web_cmds', kind).tp = "none"]_vars

\* a setUserConfiguration lookup has consumed a setGNSSAntennaLeverArm entry
\* and left another pending command behind
C6_Witness ==
    /\ cmd_op = [op |-> "get", kind |-> "setUserConfiguration",
                 res |-> "GNSSAntennaLeverArm", n |-> 1]
    /\ web_cmds # <<>>
    /\ MatchesOf(web_cmds, "setUserConfiguration") = {}


(***************************************************************************)
(* Claims about the user configuration (SpecUserCfg)                       *)
(***************************************************************************)
\* both lists hold antenna_num entries and center = housing mark + internal,
\* component by component, in raw units
CenterIsHousingMarkPlusInternal ==
    /\ Len(GNSS_lever_arm_center) = antenna_num
    /\ Len(GNSS_lever_arm_housing_mark) = antenna_num
    /\ \A a \in 1..antenna_num :
          /\ Len(GNSS_lever_arm_center[a]) >= 3
          /\ Len(GNSS_lever_arm_housing_mark[a]) >= 3
          /\ \A i \in 1..3 :
                GNSS_lever_arm_center[a][i]
                    = GNSS_lever_arm_housing_mark[a][i] + internal_lever_arm[i]

\* C7: after any sequence of calls of update_GNSS_lever_arm_by_internal_lever_arm,
\* set_GNSS_lever_arm_center and set_GNSS_lever_arm_housing_mark (here: calls
\* that all returned normally), once the internal lever arm is known both
\* lists hold exactly antenna_num entries and center[a][i] =
\* housing_mark[a][i] + internal_lever_arm[i] for every antenna and component.
C7_LeverArmInvariant ==
    (internal_lever_arm # <<>> /\ ~msg_faulted) => CenterIsHousingMarkPlusInternal

SetterCalled(op) == op.op \in {"set_center", "set_housing_mark"}

\* C8: set_imu_rotation_matrix with a matrix that has not exactly 9 elements
\* fails with ValueError and leaves the stored matrix and every other field of
\* the object as they were.
C8_BadMatrixRejected ==
    [][(msg_op'.op = "set_imu" /\ ~msg_op'.shaped)
         => /\ msg_op'.fault = "ValueError"
            /\ UNCHANGED <<imu_rotation_matrix, antenna_num, flags_leverarm_from_imu_center,
                           internal_lever_arm, GNSS_lever_arm_center,
                           GNSS_lever_arm_housing_mark>>]_vars

\* a matrix of the wrong size was refused after another matrix had been stored
C8_Witness ==
    /\ msg_op = [op |-> "set_imu", fault |-> "ValueError", shaped |-> FALSE]
    /\ imu_rotation_matrix = <<0, 1, 0, 0, 0, 0, 0, 0, 0>>

\* C9: the two lever-arm setters refuse with ValueError, changing neither
\* list, every input that is not exactly antenna_num entries of exactly 3
\* components each, and change neither list when they fail while the internal
\* lever arm is not known.
C9_MalformedLeverArmRejected ==
    [][SetterCalled(msg_op')
         => /\ ~msg_op'.shaped
                 => /\ msg_op'.fault = "ValueError"
                    /\ UNCHANGED <<GNSS_lever_arm_center, GNSS_lever_arm_housing_mark>>
            /\ (msg_op'.fault # "none" /\ internal_lever_arm = <<>>)
                 => UNCHANGED <<GNSS_lever_arm_center, GNSS_lever_arm_housing_mark>>]_vars


(***************************************************************************)
(* Claims about the CSV logging application (SpecLog)                      *)
(***************************************************************************)
\* the lines of a text: the tokens before each new-line
RECURSIVE LinesOf(_, _, _)
LinesOf(text, i, cur) ==
    IF i > Len(text) THEN (IF cur = <<>> THEN <<>> ELSE <<cur>>)
    ELSE IF text[i] = NewLine THEN <<cur>> \o LinesOf(text, i + 1, <<>>)
    ELSE LinesOf(text, i + 1, Append(cur, text[i]))

\* the header line of a packet type: its field names, comma-joined
HeaderLine(name) ==
    LET fields == output_packet_named(name).payload
    IN  [j \in 1..(2 * Len(fields) - 1) |->
            IF j % 2 = 1 THEN <<"label", fields[(j + 1) \div 2].name, 0>> ELSE Comma]

\* a data line of a packet type: one formatted value per field, comma-joined
IsDataLine(name, line) ==
    LET fields == output_packet_named(name).payload
    IN  /\ Len(line) = 2 * Len(fields) - 1
        /\ \A j \in 1..Len(line) :
              IF j % 2 = 1 THEN line[j][1] = "cell" ELSE line[j] = Comma

\* C10: after k calls of on_message with fixed-shape packets of one type
\* (k >= 1), whatever was logged for the other types, the type's file holds
\* exactly one header line followed by exactly k data lines.
C10_OneHeaderThenDataLines ==
    \A name \in {x \in PacketNames : ~is_var_len_frame(output_packet_named(x))} :
        LET lines == LinesOf(log_files[name], 1, <<>>)
            k == n_calls[name]
        IN  IF k = 0 THEN lines = <<>>
            ELSE /\ Len(lines) = k + 1
                 /\ lines[1] = HeaderLine(name)
                 /\ \A j \in 2..(k + 1) : IsDataLine(name, lines[j])

\* the data rows a decoded variable-length result asks for: for each of its
\* repetitions the fixed fields followed by that repetition's fields
RowsOf(name, data) ==
    [r \in 1..(Len(data) - 1) |->
        LET vals == data[1] \o data[r + 1]
            fields == output_packet_named(name).payload
        IN  [j \in 1..(2 * Len(vals) - 1) |->
                IF j % 2 = 1
                THEN <<"cell", FormatSpec(fields[(j + 1) \div 2].type), vals[(j + 1) \div 2].v>>
                ELSE Comma]]

\* the lines log_var_len adds to the file of a type for the result data
LinesAdded(name, data) ==
    LET before == LinesOf(log_files[name], 1, <<>>)
        after == LinesOf(log_files'[name], 1, <<>>)
    IN  SubSeq(after, Len(before) + 1, Len(after))

\* the step is a call of on_message for the variable-length type name with
\* the decoded result data
LogsVarLen(name, data) ==
    /\ is_var_len_frame(output_packet_named(name))
    /\ n_calls'[name] = n_calls[name] + 1
    /\ app_data' = data

\* C11: a call of log_var_len with a decoded result of one fixed-fields
\* mapping and N repetition mappings adds exactly N data rows, the r-th made
\* of the fixed fields followed by the fields of the r-th repetition, and the
\* header row precedes exactly the first data row ever written for the type.
C11_OneRowPerRepetition ==
    [][\A name \in PacketNames :
         \A data \in DecodedPackets(output_packet_named(name)) :
            LogsVarLen(name, data) =>
               LET added == LinesAdded(name, data)
                   rows == RowsOf(name, data)
               IN  IF log_files[name] = <<>>
                   THEN added = <<HeaderLine(name)>> \o rows
                   ELSE added = rows]_vars

(***************************************************************************)
(* Claims about the connection life cycle (SpecMain, SpecCollect)          *)
(***************************************************************************)
\* the step is a call of reinit
ReinitStep == n_reinit' = n_reinit + 1

\* C12: a call of reinit leaves the transport closed, the cancellation flag
\* false, the cache empty and the connection status 0, has called the
\* on_reinit of the application that is set exactly once (and none if no
\* application is set), and leaves the web clients and the pending commands
\* as they were.
C12_ReinitEffects ==
    [][ReinitStep =>
          /\ ~cmt_open'
          /\ ~exit_thread'
          /\ msgs' = EmptyCache
          /\ connection_status' = 0
          /\ n_on_reinit' = IF app # "none" THEN n_on_reinit + 1 ELSE n_on_reinit
          /\ app' = app
          /\ web_clients' = web_clients
          /\ web_cmds' = web_cmds]_vars

\* reinit has been called after a connection on which a packet was cached and
\* which a fault ended
C12_Witness ==
    /\ n_reinit = 2
    /\ n_on_reinit = 2
    /\ hd_op.op = "reinit"
    /\ hd_op.n = 1
    /\ main_pc = "find"
    /\ web_clients # {}
    /\ msgs = EmptyCache

\* C13: a call of reinit leaves the byte queue empty, so that no byte put on
\* the queue before it is taken by the parser started after it.
C13_ReinitEmptiesQueue ==
    [][ReinitStep => data_queue' = <<>>]_vars

\* C15: when the open fails start_collection returns 'keep retrying' and has
\* started no thread, written no query, pushed no DeviceStatus event and left
\* the connection status at 0.
C15_OpenFailureStartsNothing ==
    [][(main_pc = "open" /\ main_pc' = "returned") =>
          /\ result' = "retry"
          /\ receiver_pc' = receiver_pc /\ receiver_pc \in {"idle", "exited"}
          /\ parser_pc' = parser_pc /\ parser_pc \in {"idle", "exited", "dead"}
          /\ written' = written
          /\ ds_log' = ds_log
          /\ connection_status = 0 /\ connection_status' = 0
          /\ ~cmt_open']_vars

\* the open has failed with web clients registered
C15_Witness ==
    /\ main_pc = "returned"
    /\ result = "retry"
    /\ receiver_pc = "idle"
    /\ parser_pc = "idle"
    /\ web_clients = Clients
    /\ written = <<>>
    /\ ds_log = <<>>

\* C16: the loop of main is left only after start_collection has returned
\* 'stop requested' (the operator's interrupt in the wait loop, which has set
\* the cancellation flag) or by an interrupt in reinit or find_device; after
\* 'keep retrying' the next step of main is reinit, and start_collection is
\* entered only from find_device, which is entered only from reinit.
C16_ReconnectLoop ==
    /\ [](main_pc = "stopped" => (result = "stop" /\ interrupted /\ exit_thread))
    /\ [][(main_pc' = "stopped" /\ main_pc # "stopped") =>
             (main_pc = "returned" /\ result = "stop")]_vars
    /\ [][(main_pc' = "interrupted" /\ main_pc # "interrupted") =>
             main_pc \in {"reinit", "find"}]_vars
    /\ [][(main_pc = "stopped" \/ main_pc = "interrupted") => main_pc' = main_pc]_vars
    /\ [][(main_pc = "returned" /\ result = "retry" /\ main_pc' # main_pc) =>
             (ReinitStep /\ main_pc' = "find")]_vars
    /\ [][(main_pc' = "find" /\ main_pc # "find") => ReinitStep]_vars
    /\ [][(main_pc' = "open" /\ main_pc # "open") => main_pc = "find"]_vars

\* the second pass of the loop, entered after 'keep retrying', ended by the
\* operator
C16_Witness ==
    /\ main_pc = "stopped"
    /\ n_reinit = 2
    /\ ds_log # <<>>

(***************************************************************************)
(* Claims about the cache and the synthesized packets (SpecHandlers)       *)
(***************************************************************************)
\* the keys under which the 06 handler keeps messages (lines 337 and 361)
ConfigurationKeys == {"Msg_060C_topic_0A", "Internal Lever-arm"}

\* C14 (as stated): the keys of the cache are among KFN, CNM, GH, SA, NCA,
\* the user configuration and the internal lever-arm; no synthesized packet
\* is stored.
C14_CacheKeysAsStated ==
    DOMAIN msgs \subseteq ({"KFN", "CNM", "GH", "SA", "NCA"} \cup ConfigurationKeys)

\* C14 (amended): the keys of the cache are among KFN, CNM, GH, SA, NCA, the
\* user configuration, the internal lever-arm and the synthesized SS; NAV and
\* every other name are never stored.
C14_CacheKeys ==
    DOMAIN msgs \subseteq ({"KFN", "CNM", "GH", "SA", "NCA", "SS"} \cup ConfigurationKeys)

\* the packets of m.out for the observer 'to' with the packet type
Emitted(out, to, packetType) ==
    { i \in 1..Len(out) : out[i].to = to /\ out[i].packetType = packetType }

\* NAV has been emitted with KFN, CNM, GH and the synthesized SS in the cache
C14_Witness ==
    /\ hd_op.op = "packet"
    /\ hd_op.name = "CNM"
    /\ Emitted(emitted, "web", "NAV") # {}
    /\ {"KFN", "CNM", "GH", "SS"} \subseteq DOMAIN msgs
    /\ "NAV" \notin DOMAIN msgs

\* the step is a call of parse_frame's dispatch or of the 06 handler
HandlerStep == hd_op'.n = hd_op.n + 1

\* C17: NAV is emitted, once to the application that is set and once to the
\* web clients, by exactly the handler calls that handle a CNM packet while
\* KFN and GH are in the cache, and by no other call.
C17_NavTrigger ==
    [][HandlerStep =>
          LET due == /\ hd_op'.op = "packet"
                     /\ hd_op'.name = "CNM"
                     /\ "KFN" \in DOMAIN msgs
                     /\ "GH" \in DOMAIN msgs
          IN  /\ Cardinality(Emitted(emitted', "web", "NAV")) = IF due THEN 1 ELSE 0
              /\ Cardinality(Emitted(emitted', "app", "NAV")) =
                    IF due /\ app # "none" THEN 1 ELSE 0]_vars

\* the SS packet the claim C18 states for a packet of the type
SS_Stated(packet_type, packet) ==
    IF packet_type = "SA"
    THEN <<[name |-> "IMU Status", kind |-> "int",
            v |-> IF Field(packet, "IMU message count") > 0 THEN 1 ELSE 0],
           [name |-> "GNSS Status", kind |-> "int",
            v |-> IF Field(packet, "GNSS message count") > 0 THEN 1 ELSE 0],
           [name |-> "PPS Status", kind |-> "int",
            v |-> IF Field(packet, "PPS count") > 0 THEN 1 ELSE 0],
           [name |-> "NTRIP Status", kind |-> "int", v |-> 0]>>
    ELSE <<[name |-> "IMU Status", kind |-> "int", v |-> 0],
           [name |-> "GNSS Status", kind |-> "int", v |-> 0],
           [name |-> "PPS Status", kind |-> "int", v |-> 0],
           [name |-> "NTRIP Status", kind |-> "int",
            v |-> IF Field(packet, "NTRIP message size") > 0 THEN 1 ELSE 0]>>

\* C18: every SA or NCA packet handled emits one SS, to the application that
\* is set and to the web clients, whose fields are fixed by that packet alone
\* (SA: the three statuses from its counters, NTRIP Status 0; NCA: the three
\* statuses 0, NTRIP Status from its size), and the cached SS is that packet,
\* whatever SS was cached before.
C18_SubsystemStatusNoMerge ==
    [][(HandlerStep /\ hd_op'.op = "packet" /\ hd_op'.name \in {"SA", "NCA"}) =>
          \E i \in Emitted(emitted', "web", hd_op'.name) :
             LET ss == SS_Stated(hd_op'.name, emitted'[i].packet)
             IN  /\ msgs'["SS"] = ss
                 /\ Cardinality(Emitted(emitted', "web", "SS")) = 1
                 /\ \A j \in Emitted(emitted', "web", "SS") : emitted'[j].packet = ss
                 /\ Cardinality(Emitted(emitted', "app", "SS")) =
                       IF app # "none" THEN 1 ELSE 0
                 /\ \A j \in Emitted(emitted', "app", "SS") : emitted'[j].packet = ss]_vars

\* an NCA packet has been handled after an SA packet whose counters set
\* statuses the NCA trigger does not
C18_Witness ==
    /\ hd_op.op = "packet"
    /\ hd_op.name = "NCA"
    /\ "SA" \in DOMAIN msgs
    /\ Field(msgs["SA"], "IMU message count") > 0
    /\ "SS" \in DOMAIN msgs
    /\ Field(msgs["SS"], "IMU Status") = 0
    /\ Field(msgs["SS"], "NTRIP Status") = 1
    /\ Emitted(emitted, "web", "SS") # {}

(***************************************************************************)
(* Claims about the responses to web commands (SpecResponses)              *)
(***************************************************************************)
\* the step is a call of the 06 handler for a frame of the sub-id
FrameStep(sub_id) == HandlerStep /\ hd_op'.op = "frame" /\ hd_op'.name[4] = sub_id

\* the UserConfiguration query responses among what was handed to the web clients
UserConfigurationPushes(out) ==
    { i \in Emitted(out, "web", "UserConfiguration") : out[i].messageType = "queryResponse" }

NormalizedType(key) ==
    IF key = "setIMURotationMatrix" THEN "IMURotationMatrix" ELSE "GNSSAntennaLeverArm"

\* C20: a System Response (sub-id 0x06) whose embedded request is 06 0D with
\* topic 0x0A, handled while a setIMURotationMatrix or setGNSSAntennaLeverArm
\* entry is pending, pushes to the web clients one setResponse with the
\* normalized type of the oldest such entry and status 0 for response byte 1,
\* status 1 for any other byte, and takes exactly that entry off the pending
\* commands; handled with no such entry pending, or for another embedded
\* request, it pushes nothing and leaves the pending commands as they were.
C20_SystemResponse ==
    [][FrameStep(6) =>
          LET payload == PayloadOf(hd_op'.name)
              status  == IF payload[3] = 1 THEN 0 ELSE 1
              m       == MatchesOf(web_cmds, "setUserConfiguration")
          IN  IF payload[1] = 6 /\ payload[2] = 13 /\ payload[4] = 10 /\ m # {}
              THEN LET i == CHOOSE j \in m : \A k \in m : j <= k
                   IN  /\ emitted' =
                            <<[to |-> "web", clients |-> web_clients,
                               messageType |-> "setResponse",
                               packetType |-> NormalizedType(web_cmds[i].kind),
                               packet |-> <<[name |-> "returnStatus", kind |-> "int",
                                             v |-> status]>>]>>
                       /\ web_cmds' = SubSeq(web_cmds, 1, i - 1)
                                         \o SubSeq(web_cmds, i + 1, Len(web_cmds))
              ELSE emitted' = <<>> /\ web_cmds' = web_cmds]_vars

\* an acknowledged set of the user configuration has been answered while a
\* set command was pending behind a command of another kind
C20_Witness ==
    /\ hd_op.op = "frame"
    /\ hd_op.name[4] = 6
    /\ PayloadOf(hd_op.name) = <<6, 13, 1, 10>>
    /\ web_clients # {}
    /\ Len(emitted) = 1
    /\ emitted[1].messageType = "setResponse"
    /\ emitted[1].packetType = "GNSSAntennaLeverArm"
    /\ Len(web_cmds) = 1
    /\ web_cmds[1].kind = "queryUserConfiguration"

(***************************************************************************)
(* Claims about the commands of the web clients (SpecWeb)                  *)
(***************************************************************************)
\* the step is one of handle_cmd_msg for a message of the type
CmdStep(messageType, packetTypes) ==
    /\ (hd_op'.op # hd_op.op \/ hd_op'.n # hd_op.n)
    /\ hd_op'.op \in {"cmd", "cmd_registered"}
    /\ hd_op'.name.messageType = messageType
    /\ hd_op'.name.packetType \in packetTypes

\* the step is the last of handle_cmd_msg for a message of the type
CmdDone(messageType, packetTypes) ==
    CmdStep(messageType, packetTypes) /\ hd_op'.op = "cmd"

\* write(cmd) was called: the command went out, or the write failed and set
\* the cancellation flag
Wrote(cmd) ==
    \/ written' = Append(written, cmd) /\ exit_thread' = exit_thread
    \/ written' = written /\ exit_thread'

\* the user configuration cached is as it was
SameUserConfiguration ==
    UNCHANGED <<antenna_num, flags_leverarm_from_imu_center, internal_lever_arm,
                GNSS_lever_arm_center, GNSS_lever_arm_housing_mark, imu_rotation_matrix>>

\* C21: handle_cmd_msg with query/Model hands the reply {Model: 'INS1000'} as a
\* queryResponse to every registered web client, in one step, and changes
\* nothing else: nothing is written, no pending command is registered, and
\* the cache, the cancellation flag, the clients and the connection are as
\* they were.
C21_ModelQueryIsLocal ==
    [][CmdStep("query", {"Model"}) =>
          /\ hd_op'.op = "cmd"
          /\ emitted' = <<[to |-> "web", clients |-> web_clients,
                           messageType |-> "queryResponse", packetType |-> "Model",
                           packet |-> <<[name |-> "Model", kind |-> "str",
                                         v |-> "INS1000"]>>]>>
          /\ written' = written
          /\ web_cmds' = web_cmds
          /\ msgs' = msgs
          /\ exit_thread' = exit_thread
          /\ SameUserConfiguration
          /\ UNCHANGED <<web_clients, cmt_open, connection_status, data_queue>>]_vars

\* query/Model has been answered after a command that registered a pending
\* command and wrote to the device
C21_Witness ==
    /\ hd_op.op = "cmd"
    /\ hd_op.n = 2
    /\ hd_op.name.messageType = "query"
    /\ hd_op.name.packetType = "Model"
    /\ web_clients = Clients
    /\ emitted # <<>>
    /\ written # <<>>
    /\ web_cmds # <<>>

\* the packet of the set message has the shape the cached user configuration
\* asks for
WellShaped(message) ==
    IF message.packetType = "IMURotationMatrix"
    THEN Len(message.packet) = 9
    ELSE Shaped(LeverArmOf(message.packet))

QueryFrame ==
    [ProductID |-> "queryProductId", EngineVersion |-> "queryEngineVersion",
     FirmwareVersion |-> "queryFirmwareVersion",
     UserConfiguration |-> "queryUserConfiguration",
     NTRIPConfiguration |-> "queryNTRIPConfiguration"]

\* C29: query/UserConfiguration and query/NTRIPConfiguration append exactly
\* one pending entry of their kind, stamped with the current time, in a step
\* that writes nothing, and write their fixed frame in a later step, with the
\* entry registered; query/ProductID, query/EngineVersion and
\* query/FirmwareVersion write their fixed frame and register nothing; an
\* 'event' message, another message type or another packet type writes
\* nothing and changes nothing.
C29_QueryRegistersBeforeWrite ==
    /\ [][CmdStep("query", {"UserConfiguration", "NTRIPConfiguration"}) =>
            IF hd_op'.op = "cmd_registered"
            THEN /\ hd_op.op # "cmd_registered"
                 /\ web_cmds' = Append(web_cmds, [kind |-> "query" \o hd_op'.name.packetType,
                                                  time |-> now])
                 /\ written' = written
                 /\ exit_thread' = exit_thread
            ELSE /\ hd_op.op = "cmd_registered"
                 /\ hd_op.name = hd_op'.name
                 /\ web_cmds # <<>>
                 /\ web_cmds[Len(web_cmds)].kind = "query" \o hd_op'.name.packetType
                 /\ web_cmds' = web_cmds
                 /\ Wrote(QueryFrame[hd_op'.name.packetType])]_vars
    /\ [][CmdStep("query", {"ProductID", "EngineVersion", "FirmwareVersion"}) =>
            /\ hd_op'.op = "cmd"
            /\ hd_op.op # "cmd_registered"
            /\ web_cmds' = web_cmds
            /\ Wrote(QueryFrame[hd_op'.name.packetType])]_vars
    /\ [][(\/ CmdStep("event", {"UserConfiguration"})
           \/ CmdStep("queryResponse", {"UserConfiguration"})
           \/ CmdStep("query", {"DeviceStatus"})
           \/ CmdStep("set", {"Model"})) =>
            /\ hd_op'.op = "cmd"
            /\ written' = written
            /\ web_cmds' = web_cmds
            /\ emitted' = <<>>
            /\ msgs' = msgs
            /\ exit_thread' = exit_thread
            /\ SameUserConfiguration
            /\ UNCHANGED <<web_clients, cmt_open, connection_status, data_queue>>]_vars

\* query/UserConfiguration has registered its entry and written its frame,
\* after another command
C29_Witness ==
    /\ hd_op.op = "cmd"
    /\ hd_op.n = 2
    /\ hd_op.name.messageType = "query"
    /\ hd_op.name.packetType = "UserConfiguration"
    /\ Len(written) = 2
    /\ written[2] = "queryUserConfiguration"
    /\ Len(web_cmds) = 1
    /\ web_cmds[1].kind = "queryUserConfiguration"

WebWriteFaulted == cmd_op.op = "write" /\ cmd_op.res = "fault"

\* query_rover_cfg_setup has run and one of its three writes failed
StartupWriteFaulted ==
    /\ receiver_pc # "idle"
    /\ main_pc \notin {"open", "query1", "query2", "query3"}
    /\ Len(written) < 3 + (IF cmd_op.op = "write" /\ cmd_op.res = "ok" THEN 1 ELSE 0)

WriteFaulted == WebWriteFaulted \/ StartupWriteFaulted

\* a step in which a call of write fails
WriteFails ==
    /\ written' = written
    /\ \/ cmd_op'.op = "write" /\ cmd_op.op # "write"
       \/ main_pc \in {"query1", "query2", "query3"} /\ main_pc' # main_pc

\* C23 as stated: whenever a write has failed during collection,
\* start_collection ends by reporting the disconnection.
C23_WriteFaultAlwaysDisconnects ==
    (WriteFaulted /\ main_pc = "returned") => Disconnected

\* C23, amended: a failed write of the start-up queries or of a web client's
\* query sets the cancellation flag; both threads then end and
\* start_collection returns; unless the operator's interrupt was taken in the
\* wait loop, it has then set the status to 0, pushed DeviceStatus(1) once to
\* every registered client, closed the transport and returned 'keep
\* retrying'; when the interrupt was taken it has returned 'stop requested'
\* with the status left at 1 and no DeviceStatus(1) pushed.
C23_WriteFaultDisconnects ==
    /\ [][WriteFails => exit_thread']_vars
    /\ []((WriteFaulted /\ main_pc = "returned" /\ ~interrupted) => Disconnected)
    /\ []((WriteFaulted /\ main_pc = "returned" /\ interrupted) =>
             (result = "stop" /\ connection_status = 1 /\ PushesOf(1) = {}))
    /\ (WriteFaulted ~>
          (main_pc = "returned" /\ Terminated(receiver_pc) /\ Terminated(parser_pc)))

C23_Witness ==
    /\ WebWriteFaulted
    /\ ~StartupWriteFaulted
    /\ ~read_fault
    /\ ~interrupted
    /\ web_clients = Clients
    /\ Disconnected
    /\ main_pc = "returned"
    /\ dispatched # <<>>

(***************************************************************************)
(* Claims about the start-up queries (SpecCollect)                         *)
(***************************************************************************)
\* s is t with some elements left out
RECURSIVE IsSubsequence(_, _)
IsSubsequence(s, t) ==
    IF s = <<>> THEN TRUE
    ELSE IF t = <<>> THEN FALSE
    ELSE IF Head(s) = Head(t) THEN IsSubsequence(Tail(s), Tail(t))
    ELSE IsSubsequence(s, Tail(t))

\* C24: after a successful open query_rover_cfg_setup runs once: it writes
\* queryInternalLeverArm, queryUserConfiguration and queryNTRIPConfiguration
\* in that order (a write that fails sets the cancellation flag and the next
\* query is still written), all while the status is 0 and before any
\* DeviceStatus is pushed; nothing else is written during the collection and
\* no pending web command is registered.
C24_StartupQueries ==
    /\ [][\A i \in 1..3 :
            (main_pc = <<"query1", "query2", "query3">>[i] /\ main_pc' # main_pc) =>
               /\ main_pc' = <<"query2", "query3", "status1">>[i]
               /\ \/ written' = Append(written, <<"queryInternalLeverArm",
                                                  "queryUserConfiguration",
                                                  "queryNTRIPConfiguration">>[i])
                  \/ written' = written /\ exit_thread'
               /\ connection_status' = 0
               /\ ds_log' = <<>>
               /\ web_cmds' = <<>>]_vars
    /\ [][written' # written => main_pc \in {"query1", "query2", "query3"}]_vars
    /\ [][(main_pc = "open" /\ main_pc' # "open" /\ cmt_open') => main_pc' = "query1"]_vars
    /\ [](IsSubsequence(written, <<"queryInternalLeverArm", "queryUserConfiguration",
                                   "queryNTRIPConfiguration">>))
    /\ []((connection_status = 1 \/ ds_log # <<>>) =>
            main_pc \notin {"open", "query1", "query2", "query3", "status1"})
    /\ []((main_pc = "status1" /\ ~exit_thread) =>
            written = <<"queryInternalLeverArm", "queryUserConfiguration",
                        "queryNTRIPConfiguration">>)
    /\ [](web_cmds = <<>>)

C24_Witness ==
    /\ main_pc = "push0"
    /\ connection_status = 1
    /\ ds_log = <<>>
    /\ written = <<"queryInternalLeverArm", "queryUserConfiguration",
                   "queryNTRIPConfiguration">>
    /\ web_cmds = <<>>

(***************************************************************************)
(* Claims about the frame size bound (SpecParser)                          *)
(***************************************************************************)
\* C27: parse_frame is never called with a frame of more than 500 bytes and
\* the frame buffer never holds more than 500 bytes.
C27_FrameSizeBound ==
    /\ \A j \in 1..Len(dispatched) : Len(dispatched[j].frame) <= MAX_FRAME_LIMIT
    /\ Len(frame) <= MAX_FRAME_LIMIT

(***************************************************************************)
(* Claims about cancellation (SpecCollect, FairCollect)                    *)
(***************************************************************************)
\* the transport was opened and the two threads were started
Started == receiver_pc # "idle"

\* C28 as stated: whenever start_collection has returned after a successful
\* open, both threads have ended and the transport is closed.
C28_ReturnedMeansStopped ==
    (main_pc = "returned" /\ Started) =>
        (Terminated(receiver_pc) /\ Terminated(parser_pc) /\ ~cmt_open)

\* C28, amended: a receiver that reads the cancellation flag set closes the
\* transport and returns; a parser that reads it set returns and leaves the
\* transport alone; start_collection sets the status to 0 and reports only
\* after both threads have ended, and when it returns 'keep retrying' after a
\* successful open both threads have ended and the transport is closed.
\* When the operator's interrupt is taken in the wait loop start_collection
\* returns 'stop requested' at once, without joining and without closing:
\* both threads end afterwards, and the transport is closed by the receiver
\* unless a failed read ended it.
C28_Cancellation ==
    /\ [][(receiver_pc = "run" /\ receiver_pc' # "run" /\ exit_thread) =>
             (receiver_pc' = "exited" /\ ~cmt_open')]_vars
    /\ [][(parser_pc = "run" /\ parser_pc' # "run" /\ exit_thread) =>
             (parser_pc' = "exited" /\ cmt_open' = cmt_open)]_vars
    /\ [](main_pc \in {"status0", "push1", "close"} =>
             (Terminated(receiver_pc) /\ Terminated(parser_pc)))
    /\ []((Started /\ main_pc \notin {"close", "returned"}) =>
             (PushesOf(1) = {} /\ (connection_status = 0 => main_pc \in {"query1", "query2", "query3", "status1", "push1"})))
    /\ []((main_pc = "returned" /\ Started /\ ~interrupted) =>
             (result = "retry" /\ Terminated(receiver_pc) /\ Terminated(parser_pc)
              /\ ~cmt_open))
    /\ []((main_pc = "returned" /\ interrupted) => result = "stop")
    /\ []((interrupted /\ Terminated(receiver_pc) /\ ~read_fault) => ~cmt_open)
    /\ (interrupted ~> (Terminated(receiver_pc) /\ Terminated(parser_pc)))

C28_Witness ==
    /\ main_pc = "returned"
    /\ result = "retry"
    /\ exit_thread
    /\ ~read_fault
    /\ ~interrupted
    /\ receiver_pc = "exited"
    /\ parser_pc = "exited"
    /\ ~cmt_open
    /\ connection_status = 0
    /\ dispatched # <<>>

(***************************************************************************)
(* Claims about the order of delivery (SpecOrder)                          *)
(***************************************************************************)
\* the places of the packets of the type handed to the destination
PlacesOf(out, to, packetType) ==
    {i \in 1..Len(out) : out[i].to = to /\ out[i].packetType = packetType}

\* C26: whatever the interleaving of the receiver and the parser, the queue
\* holds exactly the bytes received and not yet taken, in the order of the
\* stream; the frames handed to parse_frame are the frames of the stream in
\* the order of the stream; a call that hands NAV on has handed the CNM
\* packet to the same destination before it, and hands on nothing but the
\* packet of its frame and the packets derived from it.
C26_Ordering ==
    /\ [](data_queue = SubSeq(Stream, nparsed + 1, nrecv))
    /\ [](\A j \in 1..Len(dispatched) :
             /\ dispatched[j].frame =
                   SubSeq(Stream, dispatched[j].at - Len(dispatched[j].frame) + 1,
                          dispatched[j].at)
             /\ j > 1 => dispatched[j - 1].at < dispatched[j].at
             /\ dispatched[j].frame = SegBytes(segs[j]))
    /\ [][hd_op'.n = hd_op.n + 1 =>
            /\ \A i \in 1..Len(emitted') :
                  emitted'[i].packetType \in {hd_op'.name, "NAV", "SS"}
                     \/ hd_op'.op = "parse_frame"
            /\ \A to \in {"app", "web"} :
                  \A i \in PlacesOf(emitted', to, "NAV") :
                     /\ hd_op'.name = "CNM"
                     /\ PlacesOf(emitted', to, "CNM") # {}
                     /\ \A k \in PlacesOf(emitted', to, "CNM") : k < i]_vars

C26_Witness ==
    /\ nparsed = Len(Stream)
    /\ Len(dispatched) = 2
    /\ hd_op.op = "packet"
    /\ hd_op.name = "CNM"
    /\ hd_op.n = 4
    /\ PlacesOf(emitted, "app", "NAV") # {}
    /\ PlacesOf(emitted, "web", "NAV") # {}

(***************************************************************************)
(* Claims about the calls of on_message (SpecFrames)                       *)
(***************************************************************************)
\* the catalogue entry of the frame (<<>>: none)
EntryOf(fr) == output_packet_of(SubSeq(fr, 1, PAYLOAD_LEN_IDX))

\* the frame has a catalogue entry and its payload has the bytes the entry
\* asks for
Decodes(fr) ==
    /\ EntryOf(fr) # <<>>
    /\ IF "var_num" \in DOMAIN EntryOf(fr)[1]
       THEN ~unpack_output_packet_var_len_raises(EntryOf(fr)[1], PayloadOf(fr))
       ELSE ~unpack_output_packet_raises(EntryOf(fr)[1], PayloadOf(fr))

\* a variable-length packet with a repetition count of zero
ZeroCount(fr) ==
    /\ EntryOf(fr) # <<>>
    /\ "var_num" \in DOMAIN EntryOf(fr)[1]
    /\ VarNumOf(EntryOf(fr)[1], PayloadOf(fr)) = 0

\* the calls of on_message in what a handler call handed on
OnMessage(out) == {i \in 1..Len(out) : out[i].to = "app"}

\* the frame is the FirmwareVersion message (AF 20 06 0C, topic 0x0C)
IsFirmwareVersion(fr) == SubSeq(fr, 1, 4) = <<175, 32, 6, 12>> /\ fr[7] = 12

\* what C25 and its amendment share: on_message is called with the
\* packet's own name, never for a frame without catalogue entry other than
\* FirmwareVersion, and once for every NAV or SS handed to the web clients
OnMessageOtherwise ==
    /\ hd_op'.op = "parse" =>
          /\ EntryOf(hd_op'.name) # <<>> =>
                \A i \in OnMessage(emitted') :
                   emitted'[i].packetType = EntryOf(hd_op'.name)[1].name
          /\ (EntryOf(hd_op'.name) = <<>> /\ ~IsFirmwareVersion(hd_op'.name)) =>
                OnMessage(emitted') = {}
          /\ IsFirmwareVersion(hd_op'.name) =>
                /\ Cardinality(OnMessage(emitted')) = 1
                /\ \A i \in OnMessage(emitted') : emitted'[i].packetType = "FirmwareVersion"
    /\ hd_op'.op = "packet" =>
          /\ Cardinality(Emitted(emitted', "app", hd_op'.name)) = 1
          /\ \A t \in {"NAV", "SS"} :
                Cardinality(Emitted(emitted', "app", t))
                   = Cardinality(Emitted(emitted', "web", t))
          /\ \A i \in OnMessage(emitted') :
                emitted'[i].packetType \in {hd_op'.name, "NAV", "SS"}

\* C25 as stated: with an application set, on_message is called exactly once
\* for every catalogued frame that decodes, the variable-length packet with a
\* repetition count of zero included.
C25_OnMessageOncePerDecodedFrame ==
    [][(hd_op'.n = hd_op.n + 1 /\ app # "none") =>
          /\ hd_op'.op = "parse" /\ EntryOf(hd_op'.name) # <<>> =>
                Cardinality(OnMessage(emitted')) = IF Decodes(hd_op'.name) THEN 1 ELSE 0
          /\ OnMessageOtherwise]_vars

\* C25, amended: with an application set, on_message is called exactly once,
\* with the packet's own name, for every catalogued frame that decodes to a
\* packet that is not empty; it is not called for a variable-length packet
\* with a repetition count of zero, nor for a frame whose decoding raises;
\* it is called once more for every NAV or SS packet synthesized, once for
\* the FirmwareVersion message and for no other frame without catalogue
\* entry.  Without an application it is never called.
C25_OnMessageOncePerPacket ==
    [][hd_op'.n = hd_op.n + 1 =>
          IF app = "none" THEN OnMessage(emitted') = {}
          ELSE /\ hd_op'.op = "parse" /\ EntryOf(hd_op'.name) # <<>> =>
                     Cardinality(OnMessage(emitted')) =
                        IF Decodes(hd_op'.name) /\ ~ZeroCount(hd_op'.name) THEN 1 ELSE 0
               /\ OnMessageOtherwise]_vars

C25_Witness ==
    /\ app = "app"
    /\ hd_op.op = "parse"
    /\ ZeroCount(hd_op.name)
    /\ Decodes(hd_op.name)
    /\ hd_op.fault = "none"
    /\ emitted = <<>>
    /\ hd_op.n = 2

(***************************************************************************)
(* Claims about the encoded 06 0D command (SpecPack)                       *)
(***************************************************************************)
\* the payload length a frame declares (parser, line 156)
DeclaredLength(fr) == 256 * fr[PAYLOAD_LEN_IDX + 2] + fr[PAYLOAD_LEN_IDX + 1]

\* C31: every command pack_msg_060D builds is the header AF 20 06 0D, the
\* little-endian length of its payload, the payload, and a trailer the parser
\* accepts: the frame is complete at its last byte and its last two bytes
\* are the checksum of the payload in the order the parser compares them.
C31_PackedFramePassesParser ==
    \A i \in 1..Len(written) :
       /\ SubSeq(written[i], 1, 4) = <<175, 32, 6, 13>>
       /\ FrameComplete(written[i], DeclaredLength(written[i]))
       /\ ChecksumOk(written[i], DeclaredLength(written[i]))

(***************************************************************************)
(* Claims about the decoding of fixed-shape packets (SpecFrames)           *)
(***************************************************************************)
\* the frame has a fixed-shape catalogue entry without a string field, and
\* its payload has at least the bytes the field types add up to
FixedShapeAtLeast(fr) ==
    /\ EntryOf(fr) # <<>>
    /\ "var_num" \notin DOMAIN EntryOf(fr)[1]
    /\ ~HasString(EntryOf(fr)[1])
    /\ Len(PayloadOf(fr)) >= PackLength(EntryOf(fr)[1].payload, 1)

\* C32: parse_frame decodes every frame of a fixed-shape catalogue entry
\* whose payload has at least the N bytes the field types add up to, a
\* payload longer than N included: no exception leaves it
C32_FixedShapeDecodes ==
    [][(hd_op'.op = "parse" /\ hd_op'.n = hd_op.n + 1 /\ FixedShapeAtLeast(hd_op'.name))
          => hd_op'.fault = "none"]_vars

(***************************************************************************)
(* Claims about the decoding of variable-length packets (SpecVarLen)       *)
(***************************************************************************)
\* the names of a mapping, in order
NamesOf(mapping) == [i \in 1..Len(mapping) |-> mapping[i].name]

\* the values of a mapping, in order
ValuesOf(mapping) == [i \in 1..Len(mapping) |-> mapping[i].v]

\* C33: for an entry of F fixed and R repeating fields and a payload with a
\* repetition count c, unpack_output_packet_var_len returns the empty
\* sequence when c = 0 and otherwise exactly 1 + c mappings: the F fixed
\* fields first, then for every repetition its R fields in wire order
C33_VarLenShape ==
    (hd_op.op = "var_len")
       => LET e == hd_op.name.entry
              p == hd_op.name.payload
              f == e.var_num.field_idx
              r == Len(e.payload) - f
              c == p[f]
          IN  /\ hd_op.fault = "none"
              /\ c = 0 => emitted = <<>>
              /\ c >= 1 =>
                    /\ Len(emitted) = 1 + c
                    /\ NamesOf(emitted[1]) = SubSeq(FixedNames, 1, f)
                    /\ ValuesOf(emitted[1]) = SubSeq(p, 1, f)
                    /\ \A k \in 1..c :
                          /\ NamesOf(emitted[1 + k]) = SubSeq(RepeatNames, 1, r)
                          /\ ValuesOf(emitted[1 + k]) =
                                SubSeq(p, f + r * (k - 1) + 1, f + r * k)



(***************************************************************************)
(* Claims about the rescaling of decoded fields (SpecScale)                *)
(***************************************************************************)
\* the packets handed on by the last step under the name of the entry
ScaledOut ==
    {emitted[i].packet : i \in {j \in 1..Len(emitted) : emitted[j].packetType = "INS"}}

\* the field i of the entry of the last step has a Scaling that evaluates
Rescales(i) ==
    /\ "Scaling" \in DOMAIN hd_op.name.entry.payload[i]
    /\ ~EvalRaises(hd_op.name.entry.payload[i].Scaling)

\* C34: a Scaling that fails to evaluate skips the rescaling of its own
\* field only: every other field with a Scaling is rescaled, no exception
\* leaves parse_frame and the packet is handed on
C34_FailedScalingSkipsOneField ==
    (hd_op.op = "scale")
       => /\ hd_op.fault = "none"
          /\ ScaledOut # {}
          /\ \A pk \in ScaledOut : \A i \in 1..Len(pk) :
                pk[i].v = IF Rescales(i) THEN 2 * hd_op.name.payload[i]
                          ELSE hd_op.name.payload[i]

(***************************************************************************)
(* Claims about the use of the cached user configuration by two threads    *)
(* (SpecRace)                                                              *)
(***************************************************************************)
\* the lever arms of a set command: the bytes after the 6 bytes before the
\* payload and the 93 bytes of the payload before them
LeverArmBytes(cmd) == SubSeq(cmd, 100, 99 + 12 * antenna_num)

\* the lists of lever arms pack_msg_060D encodes when the setter and it run
\* with no step of the parser thread in between: the list of the argument,
\* or the list the setter works out from it with one internal lever arm
SerialLeverArms ==
    LET raw == RawLeverArm(cmd_op.res)
        own == flags_leverarm_from_imu_center <=> (cmd_op.kind = "set_center")
        sign == IF cmd_op.kind = "set_center" THEN -1 ELSE 1
    IN  IF own THEN {raw}
        ELSE {AppendAll(<<>>, raw, RawList(internal), sign, 0, antenna_num).list :
                 internal \in InternalInputs}

C36_ParserEndsOnlyOnFlag ==
    [][(~Terminated(parser_pc) /\ Terminated(parser_pc')) => exit_thread]_vars

(***************************************************************************)
(* Claims about the lock of web_clients (SpecLocks)                        *)
(***************************************************************************)
\* C37: the lock of web_clients is released on every path: once a call of
\* add_client, remove_client or packet_handler has returned or raised, the
\* lock is free, also after remove_client for a client that is not
\* registered and after a client's on_driver_message has raised
C37_WebClientsLockReleased == web_clients_lock = "free"

(***************************************************************************)
(* Claims about the DeviceStatus events (SpecMain)                         *)
(***************************************************************************)
\* the returnStatus of the last DeviceStatus pushed (1 before the first)
LastPush == IF ds_log = <<>> THEN 1 ELSE ds_log[Len(ds_log)].returnStatus

\* the DeviceStatus events alternate, the first of them a 0
Alternate == \A j \in 1..Len(ds_log) : ds_log[j].returnStatus = (j - 1) % 2

\* after the operator's stop the status is 1 and the last event is a 0
StoppedConnected == (result = "stop") => (connection_status = 1 /\ LastPush = 0)

\* C38 as stated: the DeviceStatus events a registered client is pushed
\* alternate, the first of them a 0; the status is 1 exactly between a 0 and
\* the 1 that follows it; after the operator's stop no 1 is pushed and the
\* status stays 1
C38_StatusBetweenPushes ==
    /\ Alternate
    /\ (connection_status = 1) <=> (LastPush = 0)
    /\ StoppedConnected

\* C38, amended: the events alternate, the first of them a 0; the status is
\* set to 1 in the statement before the push of a 0 and to 0 in the
\* statement before the push of a 1, so it is 1 from just before a 0 to just
\* before the 1 that follows; after the operator's stop no 1 is pushed and
\* the status stays 1
C38_DeviceStatus ==
    /\ Alternate
    /\ (connection_status = 1) <=> ((LastPush = 0) # (main_pc \in {"push0", "push1"}))
    /\ StoppedConnected

\* a collection reported as connected and as disconnected, and the next one
\* stopped by the operator: the events 0, 1, 0
C38_Witness ==
    /\ Len(ds_log) = 3
    /\ \A j \in 1..Len(ds_log) : Clients \subseteq ds_log[j].to
    /\ result = "stop"
    /\ main_pc = "stopped"

(***************************************************************************)
(* Claims about the cancellation flag at the start of a collection         *)
(* (SpecIdleWeb)                                                           *)
(***************************************************************************)
\* C39: when start_collection starts the receiver and the parser, the
\* cancellation flag is false, whatever a web client's command has done
\* before: a write that failed while the driver was disconnected does not
\* end the threads of the next connection
C39_FlagClearAtStart ==
    [][(main_pc = "open" /\ receiver_pc' = "run" /\ parser_pc' = "run") => ~exit_thread']_vars

(***************************************************************************)
(* Claims about the cached user configuration (SpecHandlers)               *)
(***************************************************************************)
\* C40: once msg_typeid_06_handler has handled a frame AF 20 06 0C of topic
\* 0x0A with a well-formed payload, the user configuration decoded from it
\* is in the cache under 'Msg_060C_topic_0A'
C40_UserConfigurationCached ==
    [][(hd_op'.op = "frame" /\ hd_op'.n = hd_op.n + 1 /\ hd_op'.name = UserConfigurationFrame)
          => "Msg_060C_topic_0A" \in DOMAIN msgs']_vars

=============================================================================
